---- MODULE Spec2Model ----
(***************************************************************************)
(* State-machine model of the action-combat core of the Attack on Titan    *)
(* fan game: CombatSystem and TitanHitbox (gameplay/combat_system.py),     *)
(* TitanAI (gameplay/titan_ai.py), and Player with its ResourceSystem and  *)
(* ODMSystem hooks (gameplay/player.py, resource_system.py, odm_system.py),*)
(* PlayerTitanInteraction (gameplay/player_titan_interaction.py) and        *)
(* GameManager (core/game_manager.py).                                     *)
(*                                                                         *)
(* Units.  Python floats are modelled by scaled integers:                  *)
(*   health and damage        tenths of a health point   (100.0 -> 1000)   *)
(*   blade durability, gas    whole points                                 *)
(*   wall clock (time.time)   whole seconds                                *)
(*   dt, timers               half seconds               (1.0 s -> 2)      *)
(*   style / combo multiplier tenths                     (1.5 -> 15)       *)
(*   hit geometry             whole metres, distances compared squared     *)
(***************************************************************************)
EXTENDS Integers, Sequences, FiniteSets, TLC

VARIABLES
    now,      \* wall clock read by time.time(), seconds
    cs,       \* the CombatSystem
    hb,       \* the TitanHitbox handed to perform_slash / Player.attack
    ret,      \* the last operation and what it returned
    titan,    \* one TitanAI
    pl,       \* the Player with its ODM hooks and ResourceSystem
    frames,   \* update(dt) calls the frame loop has made
    calls,    \* calls made on the player, or on the ODMSystem used on its own
    rs,       \* a ResourceSystem used on its own
    odm,      \* an ODMSystem used on its own
    titans,   \* the titans a PlayerTitanInteraction keeps (_active_titans)
    gm        \* the GameManager

vars == <<now, cs, hb, ret, titan, pl, frames, calls, rs, odm, titans, gm>>

\* ------------------------------------------------------------------ bounds
ClockStart == 10        \* time.time() at construction (any value > COMBO_TIMEOUT)
MaxElapsed == 4         \* wall-clock seconds explored
MaxSpawns == 3          \* TitanHitbox objects constructed in one run

\* --------------------------------------------------------------- constants
MAX_BLADE_DURABILITY == 100
DURABILITY_COST_PER_ATTACK == 10
BASE_ATTACK_DAMAGE == 500              \* 50.0 health points
COMBO_TIMEOUT == 3
BASE_KILL_SCORE == 100
STYLE_MULTIPLIER_SPEED_THRESHOLD == 10
STYLE_MULTIPLIER_BONUS == 15           \* 1.5
STYLE_MULTIPLIER_NONE == 10            \* 1.0

Min(a, b) == IF a < b THEN a ELSE b
Max(a, b) == IF a > b THEN a ELSE b

\* dict.get(key, default): a missing key is the empty sequence
Get(opt, default) == IF opt = <<>> THEN default ELSE opt[1]

\* ------------------------------------------------------------------- Vec3
Vec3(x, y, z) == <<x, y, z>>

\* Vec3.distance_to, squared (the code compares sqrt(d2) with a radius)
DistanceSq(a, b) ==
    (a[1] - b[1]) * (a[1] - b[1]) + (a[2] - b[2]) * (a[2] - b[2])
        + (a[3] - b[3]) * (a[3] - b[3])

\* ------------------------------------------------------------ AttackResult
AttackResult == [hit |-> FALSE, damage |-> 0, is_critical |-> FALSE,
                 target_part |-> "", killed |-> FALSE]

\* what a call without a return value leaves in ret
NoRet == [op |-> "none", res |-> AttackResult, ok |-> FALSE]

\* ------------------------------------------------------------- TitanHitbox
TitanHitbox(id, position, nape_center, nape_radius, health) ==
    [id |-> id, position |-> position, nape_center |-> nape_center,
     nape_radius |-> nape_radius, health |-> health, max_health |-> health,
     is_alive |-> TRUE]

get_absolute_nape_position(h) ==
    Vec3(h.position[1] + h.nape_center[1], h.position[2] + h.nape_center[2],
         h.position[3] + h.nape_center[3])

is_point_in_nape_strict(h, point) ==
    DistanceSq(point, get_absolute_nape_position(h)) < h.nape_radius * h.nape_radius

is_point_in_nape(h, point) ==
    DistanceSq(point, get_absolute_nape_position(h)) <= h.nape_radius * h.nape_radius

\* TitanHitbox.take_damage: the new hitbox and the value returned
TitanHitbox_take_damage(h, damage, is_nape_hit) ==
    IF ~h.is_alive THEN [hb |-> h, killed |-> FALSE]
    ELSE IF is_nape_hit
         THEN [hb |-> [h EXCEPT !.health = 0, !.is_alive = FALSE], killed |-> TRUE]
         ELSE IF h.health - damage <= 0
              THEN [hb |-> [h EXCEPT !.health = 0, !.is_alive = FALSE],
                    killed |-> TRUE]
              ELSE [hb |-> [h EXCEPT !.health = h.health - damage],
                    killed |-> FALSE]

\* ------------------------------------------------------------ CombatSystem
CombatSystem(base_attack_damage) ==
    [base_attack_damage |-> base_attack_damage,
     blade_durability |-> MAX_BLADE_DURABILITY,
     combo_count |-> 0,
     last_kill_time |-> 0,
     total_score |-> 0,
     attack_enabled |-> TRUE,
     current_style_multiplier |-> STYLE_MULTIPLIER_NONE]

attack_enabled_any_durability(c) == c.attack_enabled

\* the attack_enabled property
attack_enabled(c) == c.attack_enabled /\ c.blade_durability > 0

\* check_nape_hit: a missing titan or hit point is no nape hit
check_nape_hit(h, hasTitan, hit_point) ==
    IF ~hasTitan \/ hit_point = <<>> THEN FALSE ELSE is_point_in_nape(h, hit_point)

\* calculate_damage: the damage and the style multiplier it records
calculate_damage(c, is_nape, speed) ==
    LET base == IF is_nape THEN c.base_attack_damage * 10
                ELSE (c.base_attack_damage * 3) \div 10
    IN IF speed > STYLE_MULTIPLIER_SPEED_THRESHOLD
       THEN [damage |-> (base * STYLE_MULTIPLIER_BONUS) \div 10,
             style |-> STYLE_MULTIPLIER_BONUS]
       ELSE [damage |-> base, style |-> STYLE_MULTIPLIER_NONE]

\* _update_combo_on_kill at wall-clock time t
update_combo_on_kill_strict(c, t) ==
    [c EXCEPT !.combo_count = IF t - c.last_kill_time < COMBO_TIMEOUT
                              THEN c.combo_count + 1 ELSE 1,
              !.last_kill_time = t]

update_combo_on_kill(c, t) ==
    [c EXCEPT !.combo_count = IF t - c.last_kill_time <= COMBO_TIMEOUT
                              THEN c.combo_count + 1 ELSE 1,
              !.last_kill_time = t]

\* get_score_multiplier, in hundredths: combo multiplier (tenths) x style (tenths)
combo_multiplier(c) ==
    IF c.combo_count > 0 THEN Min(10 + (c.combo_count - 1), 30) ELSE 10

get_score_multiplier(c) == combo_multiplier(c) * c.current_style_multiplier

\* The (combo_count, style) pairs at which the binary64 product
\* 100.0 * (combo_multiplier * style_multiplier) comes out one ulp below the
\* integer it stands for (229.99999999999997, 179.99999999999997, ...), so that
\* int() truncates to one less.  Combo multipliers are 1.0 + (n - 1) * 0.1 in
\* binary64; every other pair with combo_count up to the 3.0 cap is exact.
Binary64Shortfall == {<<14, 10>>, <<3, 15>>, <<5, 15>>, <<10, 15>>, <<19, 15>>}

\* _calculate_kill_score: int(BASE_KILL_SCORE * multiplier)
calculate_kill_score(c) ==
    LET exact == (BASE_KILL_SCORE * get_score_multiplier(c)) \div 100
    IN IF <<c.combo_count, c.current_style_multiplier>> \in Binary64Shortfall
       THEN exact - 1 ELSE exact

\* perform_slash at wall-clock time t: new combat system, new hitbox, result
CombatSystem_perform_slash(c, h, hasTitan, hit_point, attack_speed, t) ==
    IF ~attack_enabled(c) THEN [cs |-> c, hb |-> h, res |-> AttackResult]
    ELSE IF ~hasTitan \/ ~h.is_alive THEN [cs |-> c, hb |-> h, res |-> AttackResult]
    ELSE
      LET c1 == [c EXCEPT !.blade_durability =
                     Max(c.blade_durability - DURABILITY_COST_PER_ATTACK, 0)]
          is_nape_hit == check_nape_hit(h, hasTitan, hit_point)
          dmg == calculate_damage(c1, is_nape_hit, attack_speed)
          c2 == [c1 EXCEPT !.current_style_multiplier = dmg.style]
          td == TitanHitbox_take_damage(h, dmg.damage, is_nape_hit)
          c3 == IF td.killed THEN update_combo_on_kill(c2, t) ELSE c2
          c4 == IF td.killed
                THEN [c3 EXCEPT !.total_score = c3.total_score + calculate_kill_score(c3)]
                ELSE c3
      IN [cs |-> c4, hb |-> td.hb,
          res |-> [hit |-> TRUE, damage |-> dmg.damage, is_critical |-> is_nape_hit,
                   target_part |-> IF is_nape_hit THEN "nape" ELSE "body",
                   killed |-> td.killed]]

\* update_combo(dt) at wall-clock time t
CombatSystem_update_combo(c, t) ==
    IF c.combo_count > 0 /\ t - c.last_kill_time > COMBO_TIMEOUT
    THEN [c EXCEPT !.combo_count = 0] ELSE c

CombatSystem_reset_combo(c) == [c EXCEPT !.combo_count = 0, !.last_kill_time = 0]

restore_blade_durability(c) == [c EXCEPT !.blade_durability = MAX_BLADE_DURABILITY]

set_blade_durability(c, durability) ==
    [c EXCEPT !.blade_durability = Max(0, Min(durability, MAX_BLADE_DURABILITY))]

\* set_state(state): the three keys are read with dict.get and not clamped
CombatSystem_set_state(c, state) ==
    [c EXCEPT !.blade_durability = Get(state.blade_durability, MAX_BLADE_DURABILITY),
              !.combo_count = Get(state.combo_count, 0),
              !.total_score = Get(state.total_score, 0)]

CombatSystem_reset(c) ==
    [c EXCEPT !.blade_durability = MAX_BLADE_DURABILITY, !.combo_count = 0,
              !.last_kill_time = 0, !.total_score = 0,
              !.current_style_multiplier = STYLE_MULTIPLIER_NONE]

\* ================================================================ TitanAI
\* Positions lie on the x axis, Vec3(x, 0, 0), in tenths of a metre; speeds are
\* tenths of a metre per half second; dt and timers are half seconds.
IDLE_TIME == 6              \* 3.0 s in IDLE before WANDERING
WANDER_TURN_TIME == 10      \* 5.0 s between wander direction changes
ATTACK_ANIMATION_TIME == 2  \* 1.0 s in ATTACKING
GRAB_ANIMATION_TIME == 4    \* 2.0 s in GRABBING
STUN_TIME == 2              \* 1.0 s stun
GRAB_COOLDOWN == 6          \* 3.0 s
ATTACK_INTERVAL_BASE == 4   \* 2.0 s, divided by attack_frequency

Abs(x) == IF x < 0 THEN 0 - x ELSE x
Sign(x) == IF x > 0 THEN 1 ELSE IF x < 0 THEN 0 - 1 ELSE 0

\* TitanAI.__init__ for a type profile (TitanData) and its BehaviorPattern
TitanAI(data, behavior, position) ==
    [data |-> data, behavior |-> behavior,
     current_state |-> "idle", previous_state |-> "idle",
     position |-> position, target |-> <<>>,
     health |-> data.health, max_health |-> data.health, is_alive |-> TRUE,
     state_timer |-> 0, attack_cooldown |-> 0, response_timer |-> 0,
     direction_change_timer |-> 0, stun_timer |-> 0,
     velocity |-> 0, wander_direction |-> 1]

change_state(t, new_state) ==
    IF new_state = t.current_state THEN t
    ELSE [t EXCEPT !.previous_state = t.current_state,
                   !.current_state = new_state,
                   !.state_timer = 0]

\* Vec3.distance_to and Vec3.direction_to on the x axis
distance_to(a, b) == Abs(a - b)
direction_to(a, b) == Sign(b - a)

perform_attack_ignoring_cooldown(t) ==
    IF t.current_state = "stunned" THEN [titan |-> t, success |-> FALSE]
    ELSE [titan |-> change_state(
                      [t EXCEPT !.attack_cooldown =
                           ATTACK_INTERVAL_BASE \div t.behavior.attack_frequency],
                      "attacking"),
          success |-> TRUE]

\* perform_attack: the titan and the 'success' of the returned dict
perform_attack(t) ==
    IF t.attack_cooldown > 0 THEN [titan |-> t, success |-> FALSE]
    ELSE IF t.current_state = "stunned" THEN [titan |-> t, success |-> FALSE]
    ELSE [titan |-> change_state(
                      [t EXCEPT !.attack_cooldown =
                           ATTACK_INTERVAL_BASE \div t.behavior.attack_frequency],
                      "attacking"),
          success |-> TRUE]

\* perform_grab; chance_failed is the draw random.random() > grab_chance
perform_grab(t, chance_failed) ==
    IF t.attack_cooldown > 0 THEN [titan |-> t, success |-> FALSE]
    ELSE IF t.current_state = "stunned" THEN [titan |-> t, success |-> FALSE]
    ELSE IF chance_failed THEN [titan |-> t, success |-> FALSE]
    ELSE [titan |-> change_state([t EXCEPT !.attack_cooldown = GRAB_COOLDOWN],
                                 "grabbing"),
          success |-> TRUE]

is_player_in_attack_range(t, player_position) ==
    IF player_position = <<>> THEN FALSE
    ELSE distance_to(t.position, player_position[1]) <= t.data.attack_range

\* try_attack_or_grab; choose_grab is the draw random.random() < grab_chance
try_attack_or_grab(t, player_position, choose_grab, chance_failed) ==
    IF ~is_player_in_attack_range(t, player_position)
    THEN [titan |-> t, success |-> FALSE]
    ELSE IF choose_grab THEN perform_grab(t, chance_failed)
    ELSE perform_attack(t)

\* detect_player: the titan and the value returned
detect_player(t, player_position) ==
    IF player_position = <<>> THEN [titan |-> t, detected |-> FALSE]
    ELSE LET detected == distance_to(t.position, player_position[1])
                            <= t.data.detection_range
         IN IF detected /\ t.current_state \in {"idle", "wandering"}
            THEN [titan |-> change_state([t EXCEPT !.target = player_position],
                                         "pursuing"),
                  detected |-> TRUE]
            ELSE [titan |-> t, detected |-> detected]

\* pursue_target(dt) for the pursuit styles 'direct' and 'maintain_distance'
pursue_target(t, dt) ==
    IF t.target = <<>> THEN t
    ELSE
      LET toward == direction_to(t.position, t.target[1])
          direction ==
             IF t.behavior.pursuit_style = "maintain_distance"
                  /\ distance_to(t.position, t.target[1]) < t.behavior.preferred_distance
             THEN 0 - toward ELSE toward
          velocity == direction * t.data.speed
      IN [t EXCEPT !.velocity = velocity,
                   !.position = t.position + velocity * dt]

die_keeps_state(t) == [t EXCEPT !.is_alive = FALSE]

die(t) == change_state([t EXCEPT !.is_alive = FALSE], "dying")

trigger_damage_response_keeps_stun_timer(t) ==
    LET t1 == [t EXCEPT !.response_timer = t.data.response_time]
    IN IF t1.behavior.retreat_threshold > 0
            /\ t1.health * 100 < t1.behavior.retreat_threshold * t1.max_health
       THEN change_state(t1, "stunned")
       ELSE IF t1.current_state # "attacking" THEN change_state(t1, "attacking")
       ELSE t1

\* _trigger_damage_response without its default branch
trigger_damage_response_without_counterattack(t) ==
    LET t1 == [t EXCEPT !.response_timer = t.data.response_time]
    IN IF t1.behavior.retreat_threshold > 0
            /\ t1.health * 100 < t1.behavior.retreat_threshold * t1.max_health
       THEN change_state([t1 EXCEPT !.stun_timer = STUN_TIME], "stunned")
       ELSE t1

\* _trigger_damage_response
trigger_damage_response(t) ==
    LET t1 == [t EXCEPT !.response_timer = t.data.response_time]
    IN IF t1.behavior.retreat_threshold > 0
            /\ t1.health * 100 < t1.behavior.retreat_threshold * t1.max_health
       THEN change_state([t1 EXCEPT !.stun_timer = STUN_TIME], "stunned")
       ELSE IF t1.current_state # "attacking" THEN change_state(t1, "attacking")
       ELSE t1

\* take_damage: the titan and the value returned
TitanAI_take_damage(t, damage, hit_nape) ==
    IF ~t.is_alive THEN [titan |-> t, killed |-> FALSE]
    ELSE
      LET reduced == IF t.data.armor_reduction > 0 /\ ~hit_nape
                     THEN (damage * (100 - t.data.armor_reduction)) \div 100
                     ELSE damage
      IN IF hit_nape
         THEN [titan |-> die([t EXCEPT !.health = 0, !.is_alive = FALSE]),
               killed |-> TRUE]
         ELSE LET t1 == trigger_damage_response([t EXCEPT !.health = t.health - reduced])
              IN IF t1.health <= 0
                 THEN [titan |-> die([t1 EXCEPT !.health = 0, !.is_alive = FALSE]),
                       killed |-> TRUE]
                 ELSE [titan |-> t1, killed |-> FALSE]

behavior_idle(t, dt) ==
    IF t.state_timer > IDLE_TIME THEN change_state(t, "wandering") ELSE t

\* _behavior_wandering; turn is the direction drawn when the timer runs out
\* (random angle 0 or pi: +1 or -1 on the x axis)
behavior_wandering(t, dt, turn) ==
    LET timer == t.direction_change_timer + dt
        turned == timer > WANDER_TURN_TIME
        dir == IF turned THEN turn ELSE t.wander_direction
        velocity == dir * ((t.data.speed * 3) \div 10)
    IN [t EXCEPT !.direction_change_timer = IF turned THEN 0 ELSE timer,
                 !.wander_direction = dir,
                 !.velocity = velocity,
                 !.position = t.position + velocity * dt]

\* _behavior_pursuing that gives the target up at detection_range itself
behavior_pursuing_losing_at_detection_range(t, dt, choose_grab, chance_failed) ==
    IF t.target = <<>> THEN change_state(t, "wandering")
    ELSE
      LET distance == distance_to(t.position, t.target[1])
          t1 == IF distance <= t.data.attack_range
                THEN IF t.attack_cooldown <= 0
                     THEN IF choose_grab THEN perform_grab(t, chance_failed).titan
                          ELSE perform_attack(t).titan
                     ELSE t
                ELSE pursue_target(t, dt)
      IN IF distance > t.data.detection_range
         THEN change_state([t1 EXCEPT !.target = <<>>], "wandering")
         ELSE t1

behavior_pursuing(t, dt, choose_grab, chance_failed) ==
    IF t.target = <<>> THEN change_state(t, "wandering")
    ELSE
      LET distance == distance_to(t.position, t.target[1])
          t1 == IF distance <= t.data.attack_range
                THEN IF t.attack_cooldown <= 0
                     THEN IF choose_grab THEN perform_grab(t, chance_failed).titan
                          ELSE perform_attack(t).titan
                     ELSE t
                ELSE pursue_target(t, dt)
      IN IF distance * 2 > t.data.detection_range * 3
         THEN change_state([t1 EXCEPT !.target = <<>>], "wandering")
         ELSE t1

behavior_attacking(t, dt) ==
    IF t.state_timer > ATTACK_ANIMATION_TIME THEN change_state(t, "pursuing") ELSE t

behavior_grabbing(t, dt) ==
    IF t.state_timer > GRAB_ANIMATION_TIME THEN change_state(t, "pursuing") ELSE t

execute_state_behavior(t, dt, turn, choose_grab, chance_failed) ==
    CASE t.current_state = "idle" -> behavior_idle(t, dt)
      [] t.current_state = "wandering" -> behavior_wandering(t, dt, turn)
      [] t.current_state = "pursuing" ->
            behavior_pursuing(t, dt, choose_grab, chance_failed)
      [] t.current_state = "attacking" -> behavior_attacking(t, dt)
      [] t.current_state = "grabbing" -> behavior_grabbing(t, dt)
      [] OTHER -> t

\* update(dt, player_position) with the random draws it may make
TitanAI_update(t, dt, player_position, turn, choose_grab, chance_failed) ==
    IF ~t.is_alive THEN t
    ELSE
      LET t1 == [t EXCEPT
                   !.state_timer = t.state_timer + dt,
                   !.attack_cooldown = IF t.attack_cooldown > 0
                                       THEN t.attack_cooldown - dt
                                       ELSE t.attack_cooldown,
                   !.response_timer = IF t.response_timer > 0
                                      THEN t.response_timer - dt
                                      ELSE t.response_timer,
                   !.stun_timer = IF t.stun_timer > 0 THEN t.stun_timer - dt
                                  ELSE t.stun_timer]
          t2 == IF t.stun_timer > 0 /\ t1.stun_timer <= 0
                THEN change_state(t1, t1.previous_state) ELSE t1
          t3 == IF player_position # <<>> THEN [t2 EXCEPT !.target = player_position]
                ELSE t2
      IN execute_state_behavior(t3, dt, turn, choose_grab, chance_failed)

TitanStateNames ==
    {"idle", "wandering", "pursuing", "attacking", "grabbing", "stunned", "dying"}

TitanAI_set_state_always_alive(t, state) ==
    [t EXCEPT !.position = Get(state.position, 0),
              !.health = Get(state.health, t.max_health),
              !.is_alive = TRUE,
              !.current_state = Get(state.current_state, "idle")]

\* set_state(state): missing keys fall back to defaults, an unknown state
\* name to IDLE; timers and previous_state are not restored
TitanAI_set_state(t, state) ==
    [t EXCEPT !.position = Get(state.position, 0),
              !.health = Get(state.health, t.max_health),
              !.is_alive = Get(state.is_alive, TRUE),
              !.current_state =
                 LET name == Get(state.current_state, "idle")
                 IN IF name \in TitanStateNames THEN name ELSE "idle"]

\* get_state: the snapshot set_state reads back
TitanAI_get_state(t) ==
    [position |-> <<t.position>>, health |-> <<t.health>>,
     is_alive |-> <<t.is_alive>>, current_state |-> <<t.current_state>>]

TitanAI_reset(t) ==
    [t EXCEPT !.health = t.max_health, !.is_alive = TRUE,
              !.current_state = "idle", !.previous_state = "idle",
              !.target = <<>>, !.state_timer = 0, !.attack_cooldown = 0,
              !.response_timer = 0, !.stun_timer = 0, !.velocity = 0]

\* _create_default_data: the built-in type 'normal_3m' and behaviour 'standard'
normal_3m ==
    [id |-> "normal_3m", height |-> 30,
     health |-> 1000, speed |-> 10, detection_range |-> 300,
     attack_range |-> 30, attack_damage |-> 200, response_time |-> 2,
     armor_reduction |-> 0, behavior |-> "standard"]

standard ==
    [name |-> "standard", pursuit_style |-> "direct", attack_frequency |-> 1,
     retreat_threshold |-> 0, preferred_distance |-> 0]

\* a type and a behaviour as _load_titan_data reads them from the titan data
\* file: armoured (50 %), keeps 10 m away, attacks twice as often, stunned
\* when hit below 30 % health
armored_15m ==
    [id |-> "armored_15m", height |-> 150,
     health |-> 1000, speed |-> 10, detection_range |-> 300,
     attack_range |-> 30, attack_damage |-> 200, response_time |-> 2,
     armor_reduction |-> 50, behavior |-> "cautious"]

cautious ==
    [name |-> "cautious", pursuit_style |-> "maintain_distance",
     attack_frequency |-> 2, retreat_threshold |-> 30, preferred_distance |-> 100]

\* a type of the data file whose 'behavior' names no entry of
\* behavior_patterns
abnormal_7m ==
    [id |-> "abnormal_7m", height |-> 70,
     health |-> 1000, speed |-> 20, detection_range |-> 300,
     attack_range |-> 30, attack_damage |-> 300, response_time |-> 1,
     armor_reduction |-> 0, behavior |-> "erratic"]

\* the class-level tables after _load_titan_data
titan_data_cache == {normal_3m, armored_15m, abnormal_7m}
behavior_patterns_cache == {standard, cautious}

\* BehaviorPattern("standard", ..., "direct", 1.0, 0.0), the default of the
\* behaviour lookup
default_behavior ==
    [name |-> "standard", pursuit_style |-> "direct", attack_frequency |-> 1,
     retreat_threshold |-> 0, preferred_distance |-> 0]

behavior_of(data) ==
    IF \E b \in behavior_patterns_cache : b.name = data.behavior
    THEN CHOOSE b \in behavior_patterns_cache : b.name = data.behavior
    ELSE default_behavior

\* a constructor that falls back on 'normal_3m' for an unknown type
TitanAI_init_defaulting_type(titan_type_id, position) ==
    LET data == IF \E d \in titan_data_cache : d.id = titan_type_id
                THEN CHOOSE d \in titan_data_cache : d.id = titan_type_id
                ELSE normal_3m
    IN [raised |-> FALSE, titan |-> <<TitanAI(data, behavior_of(data), position)>>]

\* TitanAI(titan_type_id, position): whether ValueError was raised, and the
\* titan constructed when it was not
TitanAI_init(titan_type_id, position) ==
    IF ~\E d \in titan_data_cache : d.id = titan_type_id
    THEN [raised |-> TRUE, titan |-> <<>>]
    ELSE LET data == CHOOSE d \in titan_data_cache : d.id = titan_type_id
         IN [raised |-> FALSE,
             titan |-> <<TitanAI(data, behavior_of(data), position)>>]

\* ========================================================= ResourceSystem
MAX_GAS == 100
MAX_BLADES == 8

ResourceSystem ==
    [gas_level |-> MAX_GAS, blade_count |-> MAX_BLADES,
     blade_durability |-> MAX_BLADE_DURABILITY]

consume_gas_any_amount(r, amount) ==
    IF r.gas_level >= amount
    THEN [rs |-> [r EXCEPT !.gas_level = r.gas_level - amount], ok |-> TRUE]
    ELSE [rs |-> r, ok |-> FALSE]

\* consume_gas(amount): the system and the value returned
consume_gas(r, amount) ==
    IF amount < 0 THEN [rs |-> r, ok |-> FALSE]
    ELSE IF r.gas_level >= amount
         THEN [rs |-> [r EXCEPT !.gas_level = r.gas_level - amount], ok |-> TRUE]
         ELSE [rs |-> r, ok |-> FALSE]

ResourceSystem_switch_blade(r) ==
    IF r.blade_count > 0
    THEN [rs |-> [r EXCEPT !.blade_count = r.blade_count - 1,
                           !.blade_durability = MAX_BLADE_DURABILITY],
          ok |-> TRUE]
    ELSE [rs |-> r, ok |-> FALSE]

consume_blade_durability(r, amount) ==
    IF amount < 0 THEN [rs |-> r, ok |-> FALSE]
    ELSE IF r.blade_durability >= amount
         THEN [rs |-> [r EXCEPT !.blade_durability = r.blade_durability - amount],
               ok |-> TRUE]
         ELSE [rs |-> r, ok |-> FALSE]

\* interact_with_supply_station: refill_gas then refill_blades
ResourceSystem_interact_with_supply_station(r) ==
    [r EXCEPT !.gas_level = MAX_GAS, !.blade_count = MAX_BLADES,
              !.blade_durability = MAX_BLADE_DURABILITY]

ResourceSystem_set_state_unclamped(r, state) ==
    [r EXCEPT !.gas_level = state.gas_level,
              !.blade_count = state.blade_count,
              !.blade_durability = state.blade_durability]

\* set_state(ResourceState): every field clamped to [0, max]
ResourceSystem_set_state(r, state) ==
    [r EXCEPT !.gas_level = Max(0, Min(state.gas_level, MAX_GAS)),
              !.blade_count = Max(0, Min(state.blade_count, MAX_BLADES)),
              !.blade_durability =
                  Max(0, Min(state.blade_durability, MAX_BLADE_DURABILITY))]

ResourceSystem_refill_gas(r) == [r EXCEPT !.gas_level = MAX_GAS]

ResourceSystem_refill_blades(r) ==
    [r EXCEPT !.blade_count = MAX_BLADES, !.blade_durability = MAX_BLADE_DURABILITY]

\* get_gas_percentage and get_blade_durability_percentage, in whole percent
get_gas_percentage(r) ==
    IF MAX_GAS <= 0 THEN 0 ELSE (r.gas_level * 100) \div MAX_GAS

get_blade_durability_percentage(r) ==
    IF MAX_BLADE_DURABILITY <= 0 THEN 0
    ELSE (r.blade_durability * 100) \div MAX_BLADE_DURABILITY

\* ============================================================== ODMSystem
\* Velocities are tenths of a metre per second, positions twentieths of a
\* metre, so that position + velocity * dt is exact for dt in half seconds.
\* Square roots and quotients keep that resolution, rounded toward zero.
HOOK_RANGE == 1000          \* 50.0 m
BOOST_COST == 5
BOOST_POWER == 200          \* 20.0 m/s
ODM_GRAVITY == 49           \* 9.8 m/s^2 for half a second
AIR_RESISTANCE == 2         \* 0.02, in hundredths
ROPE_STIFFNESS == 50
ROPE_DAMPING == 5

\* integer quotient rounded toward zero (b > 0)
TruncDiv(a, b) == IF a >= 0 THEN a \div b ELSE 0 - ((0 - a) \div b)

RECURSIVE SqrtBetween(_, _, _)
SqrtBetween(n, lo, hi) ==
    IF lo >= hi THEN lo
    ELSE LET mid == (lo + hi + 1) \div 2
         IN IF mid * mid <= n THEN SqrtBetween(n, mid, hi)
            ELSE SqrtBetween(n, lo, mid - 1)

\* floor of the square root
ISqrt(n) == IF n <= 0 THEN 0 ELSE SqrtBetween(n, 0, Min(n, 46340))

VAdd(a, b) == Vec3(a[1] + b[1], a[2] + b[2], a[3] + b[3])
VSub(a, b) == Vec3(a[1] - b[1], a[2] - b[2], a[3] - b[3])
VScale(a, k) == Vec3(a[1] * k, a[2] * k, a[3] * k)
VTruncDiv(a, d) == Vec3(TruncDiv(a[1], d), TruncDiv(a[2], d), TruncDiv(a[3], d))
Dot(a, b) == a[1] * b[1] + a[2] * b[2] + a[3] * b[3]
MagSq(a) == Dot(a, a)
magnitude(a) == ISqrt(MagSq(a))
ZeroVec == Vec3(0, 0, 0)

HookState ==
    [is_attached |-> FALSE, attach_point |-> ZeroVec, rope_length |-> 0, tension |-> 0]

Surface(position, is_valid) == [position |-> position, is_valid |-> is_valid]

ODMSystem ==
    [left_hook |-> HookState, right_hook |-> HookState,
     position |-> ZeroVec, velocity |-> ZeroVec,
     gas_level |-> MAX_GAS, surfaces |-> <<>>]

get_hook(o, hook_side) == IF hook_side = "left" THEN o.left_hook ELSE o.right_hook

set_hook(o, hook_side, hook) ==
    IF hook_side = "left" THEN [o EXCEPT !.left_hook = hook]
    ELSE [o EXCEPT !.right_hook = hook]

is_any_hook_attached(o) == o.left_hook.is_attached \/ o.right_hook.is_attached

\* the test of _find_attach_point on one surface: valid, within hook_range,
\* and the cosine between the aim and the surface at least 0.5
surface_in_reach(origin, direction, surface) ==
    LET to_surface == VSub(surface.position, origin)
        d == Dot(direction, to_surface)
    IN /\ surface.is_valid
       /\ MagSq(to_surface) <= HOOK_RANGE * HOOK_RANGE
       /\ \/ MagSq(to_surface) = 0
          \/ d > 0 /\ 4 * d * d >= MagSq(direction) * MagSq(to_surface)

\* _find_attach_point: the index of the nearest surface in reach, the first
\* of equally near ones; 0 when there is none
find_attach_point(o, origin, direction) ==
    LET candidates == {i \in 1..Len(o.surfaces) :
                          surface_in_reach(origin, direction, o.surfaces[i])}
        nearer(i, j) ==
            LET di == MagSq(VSub(o.surfaces[i].position, origin))
                dj == MagSq(VSub(o.surfaces[j].position, origin))
            IN di < dj \/ (di = dj /\ i <= j)
    IN IF candidates = {} THEN 0
       ELSE CHOOSE i \in candidates : \A j \in candidates : nearer(i, j)

\* release_hook that resets both hooks
ODM_release_hook_resetting_both(o, hook_side) ==
    [o EXCEPT !.left_hook = HookState, !.right_hook = HookState]

ODM_release_hook(o, hook_side) == set_hook(o, hook_side, HookState)

ODM_release_all_hooks(o) == ODM_release_hook(ODM_release_hook(o, "left"), "right")

\* fire_hook(direction, hook_side): the system and the value returned
ODM_fire_hook(o, direction, hook_side) ==
    LET o1 == IF get_hook(o, hook_side).is_attached
              THEN ODM_release_hook(o, hook_side) ELSE o
        i == find_attach_point(o1, o1.position, direction)
    IN IF i = 0 THEN [odm |-> o1, ok |-> FALSE]
       ELSE [odm |-> set_hook(o1, hook_side,
                        [is_attached |-> TRUE,
                         attach_point |-> o1.surfaces[i].position,
                         rope_length |->
                             magnitude(VSub(o1.surfaces[i].position, o1.position)),
                         tension |-> 0]),
             ok |-> TRUE]

\* _apply_hook_constraint(hook, dt) on one side: spring and damping along the
\* rope once it is stretched
apply_hook_constraint(o, hook_side, dt) ==
    LET hook == get_hook(o, hook_side)
        to_attach == VSub(hook.attach_point, o.position)
        current_distance == magnitude(to_attach)
        stretch == current_distance - hook.rope_length
        \* stretch * stiffness - (velocity . direction) * damping, for dt
        pull == stretch * ROPE_STIFFNESS * dt
                  - TruncDiv(2 * ROPE_DAMPING * dt * Dot(o.velocity, to_attach),
                             current_distance)
    IN IF ~hook.is_attached \/ current_distance = 0 THEN o
       ELSE IF current_distance > hook.rope_length
            THEN set_hook(
                   [o EXCEPT !.velocity =
                       VAdd(o.velocity,
                            VTruncDiv(VScale(to_attach, pull),
                                      4 * current_distance))],
                   hook_side,
                   \* tension in tenths: stretch (1/20 m) * stiffness
                   [hook EXCEPT !.tension = (stretch * ROPE_STIFFNESS) \div 2])
            ELSE set_hook(o, hook_side, [hook EXCEPT !.tension = 0])

\* update_swing_physics(dt): gravity, both rope constraints, drag, position
update_swing_physics(o, dt) ==
    IF dt <= 0 THEN o
    ELSE LET o1 == [o EXCEPT !.velocity = VAdd(o.velocity, Vec3(0, 0 - ODM_GRAVITY * dt, 0))]
             o2 == apply_hook_constraint(o1, "left", dt)
             o3 == apply_hook_constraint(o2, "right", dt)
             v == VSub(o3.velocity,
                       VTruncDiv(VScale(o3.velocity, AIR_RESISTANCE), 100))
         IN [o3 EXCEPT !.velocity = v, !.position = VAdd(o3.position, VScale(v, dt))]

ODM_refill_gas(o) == [o EXCEPT !.gas_level = MAX_GAS]

ODM_reset(o) ==
    [o EXCEPT !.left_hook = HookState, !.right_hook = HookState,
              !.position = ZeroVec, !.velocity = ZeroVec, !.gas_level = MAX_GAS]

\* set_state(state): only the keys present are restored, gas clamped
ODM_set_state(o, state) ==
    [o EXCEPT !.position = Get(state.position, o.position),
              !.velocity = Get(state.velocity, o.velocity),
              !.gas_level = IF state.gas_level = <<>> THEN o.gas_level
                            ELSE Max(0, Min(state.gas_level[1], MAX_GAS))]

ODM_set_surfaces(o, surfaces) == [o EXCEPT !.surfaces = surfaces]

ODM_clear_surfaces(o) == [o EXCEPT !.surfaces = <<>>]

\* the position setter
ODM_set_position(o, value) == [o EXCEPT !.position = value]

\* ODMSystem._get_boost_direction() * boost_power: toward the left hook, else
\* the right hook, else along the velocity, else forward
ODM_boost_force(o) ==
    LET to_left == VSub(o.left_hook.attach_point, o.position)
        to_right == VSub(o.right_hook.attach_point, o.position)
    IN IF o.left_hook.is_attached /\ MagSq(to_left) > 0
       THEN VTruncDiv(VScale(to_left, BOOST_POWER), magnitude(to_left))
       ELSE IF o.right_hook.is_attached /\ MagSq(to_right) > 0
            THEN VTruncDiv(VScale(to_right, BOOST_POWER), magnitude(to_right))
       ELSE IF MagSq(o.velocity) > 0
            THEN VTruncDiv(VScale(o.velocity, BOOST_POWER), magnitude(o.velocity))
       ELSE Vec3(0, 0, BOOST_POWER)

ODM_activate_boost_without_gas_check(o) ==
    [odm |-> [o EXCEPT !.gas_level = o.gas_level - BOOST_COST,
                       !.velocity = VAdd(o.velocity, ODM_boost_force(o))],
     ok |-> TRUE]

\* ODMSystem.activate_boost: the system and the value returned
ODM_activate_boost(o) ==
    IF o.gas_level < BOOST_COST THEN [odm |-> o, ok |-> FALSE]
    ELSE IF o.gas_level <= 0 THEN [odm |-> o, ok |-> FALSE]
    ELSE [odm |-> [o EXCEPT !.gas_level = o.gas_level - BOOST_COST,
                            !.velocity = VAdd(o.velocity, ODM_boost_force(o))],
          ok |-> TRUE]

\* ============================================================ GameManager
\* GameState
GameStates ==
    {"main_menu", "character_select", "gameplay", "cutscene", "paused",
     "game_over", "results"}

VALID_TRANSITIONS ==
    [s \in GameStates |->
       CASE s = "main_menu" -> {"character_select", "gameplay"}
         [] s = "character_select" -> {"main_menu", "gameplay", "cutscene"}
         [] s = "gameplay" -> {"paused", "cutscene", "game_over", "results"}
         [] s = "cutscene" -> {"gameplay", "results"}
         [] s = "paused" -> {"gameplay", "main_menu"}
         [] s = "game_over" -> {"main_menu", "gameplay"}
         [] s = "results" -> {"main_menu", "gameplay", "character_select"}]

\* GameManager.__init__; <<>> stands for None.  No state callback is
\* registered: _trigger_callbacks runs an empty list.
GameManager ==
    [current_state |-> "main_menu", previous_state |-> <<>>,
     selected_character_id |-> <<>>, current_chapter |-> 1, score |-> 0,
     is_running |-> FALSE]

\* change_state that switches to any target
GameManager_change_state_unvalidated(g, new_state) ==
    [gm |-> [g EXCEPT !.previous_state = <<g.current_state>>,
                      !.current_state = new_state],
     ok |-> TRUE]

\* change_state: the manager and the value returned
GameManager_change_state(g, new_state) ==
    IF new_state \notin VALID_TRANSITIONS[g.current_state]
    THEN [gm |-> g, ok |-> FALSE]
    ELSE [gm |-> [g EXCEPT !.previous_state = <<g.current_state>>,
                           !.current_state = new_state],
          ok |-> TRUE]

force_state(g, new_state) ==
    [g EXCEPT !.previous_state = <<g.current_state>>,
              !.current_state = new_state]

\* start_new_game; the empty string is the falsy character id
start_new_game(g, character_id) ==
    IF character_id = "" THEN [gm |-> g, ok |-> FALSE]
    ELSE [gm |-> force_state([g EXCEPT !.selected_character_id = <<character_id>>,
                                       !.current_chapter = 1,
                                       !.score = 0],
                             "cutscene"),
          ok |-> TRUE]

load_game_state(g, character_id, chapter, score) ==
    [g EXCEPT !.selected_character_id = <<character_id>>,
              !.current_chapter = chapter,
              !.score = score]

pause_game(g) ==
    IF g.current_state # "gameplay" THEN [gm |-> g, ok |-> FALSE]
    ELSE GameManager_change_state(g, "paused")

resume_game(g) ==
    IF g.current_state # "paused" THEN [gm |-> g, ok |-> FALSE]
    ELSE GameManager_change_state(g, "gameplay")

add_score(g, points) ==
    IF points > 0 THEN [g EXCEPT !.score = g.score + points] ELSE g

advance_chapter(g) == [g EXCEPT !.current_chapter = g.current_chapter + 1]

GameManager_run(g) == [g EXCEPT !.is_running = TRUE]

GameManager_quit(g) == [g EXCEPT !.is_running = FALSE]

\* ================================================================= Player
BASE_MOVE_SPEED == 100      \* 10.0 m/s
BASE_HEALTH == 1000         \* 100.0
PLAYER_GRAVITY == 49        \* 9.8 m/s^2 for half a second
QTE_TIME_LIMIT == 4         \* 2.0 s
JUMP_FORCE == 80            \* 8.0 m/s
GRAB_DAMAGE == 300          \* 30.0
QTE_KEYS == {"space", "e", "q"}

\* str.lower() on the key names that are typed
Lower(key) ==
    CASE key = "E" -> "e"
      [] key = "Q" -> "q"
      [] key = "SPACE" -> "space"
      [] OTHER -> key

QTEEvent(required_key) ==
    [required_key |-> required_key, time_limit |-> QTE_TIME_LIMIT,
     elapsed_time |-> 0, success |-> FALSE, failed |-> FALSE]

QTE_is_active(q) == ~q.success /\ ~q.failed

\* Player.__init__ without a character.  shares_position / shares_velocity
\* say whether the player and its ODMSystem hold the same Vec3 object, so that
\* an assignment to one coordinate shows in both.
Player ==
    [current_state |-> "idle", is_grounded |-> TRUE, is_alive |-> TRUE,
     health |-> BASE_HEALTH, max_health |-> BASE_HEALTH,
     position |-> ZeroVec, velocity |-> ZeroVec, rotation |-> 0,
     odm |-> ODMSystem, shares_position |-> TRUE, shares_velocity |-> FALSE,
     resource |-> ResourceSystem,
     current_qte |-> <<>>, grabbing_titan |-> <<>>]

\* self._velocity.x = ... : the object is changed in place
velocity_in_place(p, v) ==
    [p EXCEPT !.velocity = v,
              !.odm.velocity = IF p.shares_velocity THEN v ELSE @]

\* self._velocity = Vec3(...) : the player gets an object of its own
velocity_replaced(p, v) == [p EXCEPT !.velocity = v, !.shares_velocity = FALSE]

position_in_place(p, x) ==
    [p EXCEPT !.position = x,
              !.odm.position = IF p.shares_position THEN x ELSE @]

position_replaced(p, x) == [p EXCEPT !.position = x, !.shares_position = FALSE]

grounded_or_airborne(p) == IF p.is_grounded THEN "idle" ELSE "airborne"

Player_move(p, direction, dt) ==
    IF ~p.is_alive \/ p.current_state = "grabbed" THEN p
    ELSE LET move_velocity == VScale(direction, BASE_MOVE_SPEED)
         IN IF p.is_grounded
            THEN [velocity_in_place(p, Vec3(move_velocity[1], p.velocity[2],
                                            move_velocity[3]))
                    EXCEPT !.current_state =
                        IF MagSq(direction) > 0 THEN "moving" ELSE "idle"]
            ELSE velocity_in_place(p,
                    Vec3(p.velocity[1] + TruncDiv(move_velocity[1] * 3 * dt, 20),
                         p.velocity[2],
                         p.velocity[3] + TruncDiv(move_velocity[3] * 3 * dt, 20)))

Player_jump(p) ==
    IF ~p.is_alive \/ ~p.is_grounded THEN [pl |-> p, ok |-> FALSE]
    ELSE IF p.current_state = "grabbed" THEN [pl |-> p, ok |-> FALSE]
    ELSE [pl |-> [velocity_in_place(p, Vec3(p.velocity[1], JUMP_FORCE, p.velocity[3]))
                    EXCEPT !.is_grounded = FALSE, !.current_state = "airborne"],
          ok |-> TRUE]

Player_fire_hook(p, direction, side) ==
    IF ~p.is_alive \/ p.current_state = "grabbed" THEN [pl |-> p, ok |-> FALSE]
    ELSE LET r == ODM_fire_hook(p.odm, direction, side)
         IN IF r.ok
            THEN [pl |-> [p EXCEPT !.odm = r.odm, !.is_grounded = FALSE,
                                   !.current_state = "swinging"],
                  ok |-> TRUE]
            ELSE [pl |-> [p EXCEPT !.odm = r.odm], ok |-> FALSE]

Player_release_hook(p, side) ==
    LET p1 == [p EXCEPT !.odm = ODM_release_hook(p.odm, side)]
    IN IF ~is_any_hook_attached(p1.odm)
       THEN [p1 EXCEPT !.current_state = grounded_or_airborne(p1)]
       ELSE p1

Player_release_all_hooks(p) ==
    LET p1 == [p EXCEPT !.odm = ODM_release_all_hooks(p.odm)]
    IN [p1 EXCEPT !.current_state = grounded_or_airborne(p1)]

\* Vec3.normalized() * BOOST_POWER
boost_along(direction) ==
    VTruncDiv(VScale(direction, BOOST_POWER), magnitude(direction))

\* _get_boost_direction() * boost_power
boost_force(p) ==
    LET to_left == VSub(p.odm.left_hook.attach_point, p.position)
        to_right == VSub(p.odm.right_hook.attach_point, p.position)
    IN IF p.odm.left_hook.is_attached /\ MagSq(to_left) > 0 THEN boost_along(to_left)
       ELSE IF p.odm.right_hook.is_attached /\ MagSq(to_right) > 0
            THEN boost_along(to_right)
       ELSE IF MagSq(p.velocity) > 0 THEN boost_along(p.velocity)
       ELSE Vec3(0, 0, BOOST_POWER)

Player_activate_boost(p) ==
    IF ~p.is_alive \/ p.current_state = "grabbed" THEN [pl |-> p, ok |-> FALSE]
    ELSE IF p.resource.gas_level < BOOST_COST THEN [pl |-> p, ok |-> FALSE]
    ELSE LET p1 == [p EXCEPT !.resource = consume_gas(p.resource, BOOST_COST).rs]
         IN [pl |-> velocity_replaced(p1, VAdd(p1.velocity, boost_force(p1))),
             ok |-> TRUE]

\* Vec3.magnitude() in whole metres per second, rounded up: it is only ever
\* compared with the whole-number style threshold
attack_speed_of(velocity) ==
    LET m == magnitude(velocity)
        up == IF m * m = MagSq(velocity) THEN m ELSE m + 1
    IN (up + 9) \div 10

\* attack(target, hit_point) at wall-clock time t: player, combat system,
\* target and the AttackResult
Player_attack(p, c, h, hasTitan, hit_point, t) ==
    IF ~p.is_alive \/ p.current_state = "grabbed"
    THEN [pl |-> p, cs |-> c, hb |-> h, res |-> AttackResult]
    ELSE IF p.resource.blade_durability <= 0
    THEN [pl |-> p, cs |-> c, hb |-> h, res |-> AttackResult]
    ELSE LET r == CombatSystem_perform_slash(c, h, hasTitan, hit_point,
                                             attack_speed_of(p.velocity), t)
         IN [pl |-> IF r.res.hit
                    THEN [p EXCEPT !.resource =
                              consume_blade_durability(p.resource,
                                  DURABILITY_COST_PER_ATTACK).rs,
                            !.current_state = "attacking"]
                    ELSE p,
             cs |-> r.cs, hb |-> r.hb, res |-> r.res]

Player_switch_blade(p, c) ==
    IF ~p.is_alive THEN [pl |-> p, cs |-> c, ok |-> FALSE]
    ELSE LET r == ResourceSystem_switch_blade(p.resource)
         IN [pl |-> [p EXCEPT !.resource = r.rs],
             cs |-> IF r.ok THEN restore_blade_durability(c) ELSE c,
             ok |-> r.ok]

Player_interact_with_supply_station(p, c) ==
    IF ~p.is_alive THEN [pl |-> p, cs |-> c]
    ELSE [pl |-> [p EXCEPT !.resource =
                      ResourceSystem_interact_with_supply_station(p.resource),
                    !.odm = ODM_refill_gas(p.odm)],
          cs |-> restore_blade_durability(c)]

Player_die(p) ==
    [velocity_replaced(p, ZeroVec)
       EXCEPT !.is_alive = FALSE, !.current_state = "dead",
              !.odm = ODM_release_all_hooks(p.odm)]

Player_take_damage(p, damage) ==
    IF ~p.is_alive THEN [pl |-> p, ok |-> TRUE]
    ELSE IF p.health - damage <= 0
         THEN [pl |-> Player_die([p EXCEPT !.health = 0]), ok |-> TRUE]
         ELSE [pl |-> [p EXCEPT !.health = p.health - damage], ok |-> FALSE]

Player_heal(p, amount) ==
    IF ~p.is_alive THEN p
    ELSE [p EXCEPT !.health = Min(p.health + amount, p.max_health)]

\* respawn(position): position is <<>> for None
Player_respawn(p, position) ==
    LET p1 == [p EXCEPT !.is_alive = TRUE, !.health = p.max_health,
                        !.current_state = "idle", !.is_grounded = TRUE]
        p2 == IF position = <<>> THEN p1
              ELSE [p1 EXCEPT !.position = position[1], !.odm.position = position[1],
                              !.shares_position = TRUE]
    IN [velocity_replaced(p2, ZeroVec)
          EXCEPT !.current_qte = <<>>, !.grabbing_titan = <<>>]

Player_on_grabbed_keeps_hooks(p, grabber, required_key) ==
    IF ~p.is_alive THEN p
    ELSE [velocity_replaced(p, ZeroVec)
            EXCEPT !.current_state = "grabbed", !.grabbing_titan = grabber,
                   !.current_qte = <<QTEEvent(required_key)>>]

\* on_grabbed(titan); required_key is the draw random.choice(QTE_KEYS)
Player_on_grabbed(p, grabber, required_key) ==
    IF ~p.is_alive THEN p
    ELSE [velocity_replaced(p, ZeroVec)
            EXCEPT !.current_state = "grabbed", !.grabbing_titan = grabber,
                   !.odm = ODM_release_all_hooks(p.odm),
                   !.current_qte = <<QTEEvent(required_key)>>]

escape_grab(p) ==
    [velocity_replaced(p, Vec3(0, 50, 0 - 30))
       EXCEPT !.current_state = "airborne", !.grabbing_titan = <<>>,
              !.current_qte = <<>>]

fail_qte_without_damage(p) ==
    [velocity_replaced(p, Vec3(0, 20, 0 - 20))
       EXCEPT !.current_state = "airborne", !.grabbing_titan = <<>>,
              !.current_qte = <<>>]

\* _fail_qte: the grabbing titan's attack_damage * 1.5, or 30.0 without one
fail_qte(p) ==
    LET grab_damage == IF p.grabbing_titan = <<>> THEN GRAB_DAMAGE
                       ELSE (p.grabbing_titan[1] * 3) \div 2
        p1 == Player_take_damage(p, grab_damage).pl
        p2 == IF p1.is_alive
              THEN [velocity_replaced(p1, Vec3(0, 20, 0 - 20))
                      EXCEPT !.current_state = "airborne"]
              ELSE p1
    IN [p2 EXCEPT !.grabbing_titan = <<>>, !.current_qte = <<>>]

Player_process_qte_input_any_key(p, key) ==
    IF p.current_qte = <<>> THEN [pl |-> p, ok |-> FALSE]
    ELSE IF ~QTE_is_active(p.current_qte[1]) THEN [pl |-> p, ok |-> FALSE]
    ELSE [pl |-> escape_grab(p), ok |-> TRUE]

Player_process_qte_input(p, key) ==
    IF p.current_qte = <<>> THEN [pl |-> p, ok |-> FALSE]
    ELSE IF ~QTE_is_active(p.current_qte[1]) THEN [pl |-> p, ok |-> FALSE]
    ELSE IF Lower(key) = Lower(p.current_qte[1].required_key)
         THEN [pl |-> escape_grab(p), ok |-> TRUE]
         ELSE [pl |-> p, ok |-> FALSE]

\* _check_ground: the y coordinates are assigned in place
check_ground(p) ==
    IF p.position[2] <= 0
    THEN LET p1 == position_in_place(p, Vec3(p.position[1], 0, p.position[3]))
             p2 == velocity_in_place(p1, Vec3(p1.velocity[1], 0, p1.velocity[3]))
         IN [p2 EXCEPT !.is_grounded = TRUE,
                       !.current_state =
                           IF p.current_state = "airborne"
                           THEN IF MagSq(p2.velocity) > 1 THEN "moving" ELSE "idle"
                           ELSE @]
    ELSE [p EXCEPT !.is_grounded = FALSE]

update_state(p) ==
    IF p.current_state \in {"dead", "grabbed"} THEN p
    ELSE [p EXCEPT !.current_state =
             IF is_any_hook_attached(p.odm) THEN "swinging"
             ELSE IF ~p.is_grounded THEN "airborne"
             ELSE IF MagSq(p.velocity) > 1 THEN "moving"
             ELSE "idle"]

\* the QTE branch of update: QTEEvent.update(dt), then _fail_qte on time-out
update_qte(p, dt) ==
    LET q == p.current_qte[1]
        elapsed == q.elapsed_time + dt
        q1 == [q EXCEPT !.elapsed_time = elapsed,
                        !.failed = elapsed >= q.time_limit]
        p1 == [p EXCEPT !.current_qte = <<q1>>]
    IN IF q1.failed THEN fail_qte(p1) ELSE p1

\* the motion branch of update: swing physics on the ODMSystem while a hook
\* is attached, free flight otherwise
update_motion(p, dt) ==
    IF is_any_hook_attached(p.odm)
    THEN LET o == update_swing_physics([p.odm EXCEPT !.velocity = p.velocity], dt)
         IN [p EXCEPT !.odm = o, !.velocity = o.velocity, !.position = o.position,
                      !.shares_velocity = TRUE, !.shares_position = TRUE]
    ELSE LET p1 == IF ~p.is_grounded
                   THEN velocity_in_place(p,
                            Vec3(p.velocity[1], p.velocity[2] - PLAYER_GRAVITY * dt,
                                 p.velocity[3]))
                   ELSE p
         IN position_replaced(p1, VAdd(p1.position, VScale(p1.velocity, dt)))

Player_update_simulating_the_captured(p, c, dt, t) ==
    IF ~p.is_alive THEN [pl |-> p, cs |-> c]
    ELSE LET p1 == IF p.current_qte # <<>> /\ QTE_is_active(p.current_qte[1])
                   THEN update_qte(p, dt) ELSE p
         IN [pl |-> update_state(check_ground(update_motion(p1, dt))),
             cs |-> CombatSystem_update_combo(c, t)]

\* update(dt) at wall-clock time t: the player and its combat system
Player_update(p, c, dt, t) ==
    IF ~p.is_alive THEN [pl |-> p, cs |-> c]
    ELSE IF p.current_qte # <<>> /\ QTE_is_active(p.current_qte[1])
    THEN [pl |-> update_qte(p, dt), cs |-> c]
    ELSE [pl |-> update_state(check_ground(update_motion(p, dt))),
          cs |-> CombatSystem_update_combo(c, t)]

\* set_state(state): every key of the snapshot and of its three nested
\* snapshots may be missing
Player_set_state(p, c, state) ==
    LET position == Get(state.position, ZeroVec)
        resource_state == Get(state.resource_state,
                              [gas_level |-> <<>>, blade_count |-> <<>>,
                               blade_durability |-> <<>>])
        combat_state == Get(state.combat_state,
                            [blade_durability |-> <<>>, combo_count |-> <<>>,
                             total_score |-> <<>>])
        odm_state == Get(state.odm_state,
                         [position |-> <<>>, velocity |-> <<>>, gas_level |-> <<>>])
        is_alive == Get(state.is_alive, TRUE)
    IN [pl |-> [p EXCEPT
                  !.position = position,
                  !.shares_position = (odm_state.position = <<>>),
                  !.shares_velocity = IF odm_state.velocity = <<>> THEN @ ELSE FALSE,
                  !.health = Get(state.health, p.max_health),
                  !.is_alive = is_alive,
                  !.resource = ResourceSystem_set_state(p.resource,
                      [gas_level |-> Get(resource_state.gas_level, MAX_GAS),
                       blade_count |-> Get(resource_state.blade_count, MAX_BLADES),
                       blade_durability |->
                           Get(resource_state.blade_durability, MAX_BLADE_DURABILITY)]),
                  !.odm = ODM_set_state([p.odm EXCEPT !.position = position], odm_state),
                  !.current_state = IF is_alive THEN "idle" ELSE "dead"],
        cs |-> CombatSystem_set_state(c, combat_state)]

Player_reset(p, c) ==
    [pl |-> [p EXCEPT !.health = p.max_health, !.is_alive = TRUE,
                      !.current_state = "idle", !.is_grounded = TRUE,
                      !.position = ZeroVec, !.velocity = ZeroVec,
                      !.rotation = 0,
                      !.shares_position = FALSE, !.shares_velocity = FALSE,
                      !.odm = ODM_reset(p.odm),
                      !.resource = ResourceSystem,
                      !.current_qte = <<>>, !.grabbing_titan = <<>>],
     cs |-> CombatSystem_reset(c)]

Player_set_surfaces(p, surfaces) == [p EXCEPT !.odm.surfaces = surfaces]

\* ---------------------------------------------------------------- inputs
HitboxPosition == Vec3(0, 0, 0)
NapeCenter == Vec3(0, 5, -1)
NapeRadius == 1

\* health of a constructed TitanHitbox: 30.0, two plain body hits of 15.0
HitboxHealths == {300}

\* hit points: none, the nape centre, on the nape sphere, just outside it, the body
HitPoints == {<<>>, Vec3(0, 5, -1), Vec3(0, 6, -1), Vec3(1, 6, -1), Vec3(0, 0, 0)}

AttackSpeeds == {0, 10, 11}

\* CombatSystem.set_state dictionaries: each key present or missing
CombatStates ==
    {[blade_durability |-> <<>>, combo_count |-> <<>>, total_score |-> <<>>],
     [blade_durability |-> <<-5>>, combo_count |-> <<>>, total_score |-> <<>>],
     [blade_durability |-> <<5>>, combo_count |-> <<1>>, total_score |-> <<>>]}

DurabilityArgs == {-5, 150}

\* ------------------------------------------------------- initial objects
DefaultTitan == TitanAI(normal_3m, standard, 0)

InitCombat ==
    /\ now = ClockStart
    /\ cs = CombatSystem(BASE_ATTACK_DAMAGE)
    /\ \E h \in HitboxHealths :
         hb = TitanHitbox(1, HitboxPosition, NapeCenter, NapeRadius, h)
    /\ ret = NoRet
    /\ titan = DefaultTitan
    /\ pl = Player
    /\ frames = 0
    /\ calls = 0
    /\ rs = ResourceSystem
    /\ odm = ODMSystem
    /\ titans = <<>>
    /\ gm = GameManager

\* ------------------------------------------------- CombatSystem actions
\* time.time() advances
Tick ==
    /\ now < ClockStart + MaxElapsed
    /\ now' = now + 1
    /\ UNCHANGED <<cs, hb, ret, titan, pl, frames, calls, rs, odm, titans, gm>>

\* the level constructs another TitanHitbox once the last one is dead
SpawnHitbox ==
    /\ hb.id < MaxSpawns
    /\ ~hb.is_alive
    /\ \E h \in HitboxHealths :
         hb' = TitanHitbox(hb.id + 1, HitboxPosition, NapeCenter, NapeRadius, h)
    /\ ret' = NoRet
    /\ UNCHANGED <<now, cs, titan, pl, frames, calls, rs, odm, titans, gm>>

PerformSlash ==
    \E hasTitan \in BOOLEAN, hit_point \in HitPoints, attack_speed \in AttackSpeeds :
      LET r == CombatSystem_perform_slash(cs, hb, hasTitan, hit_point, attack_speed, now)
      IN /\ cs' = r.cs
         /\ hb' = r.hb
         /\ ret' = [op |-> "perform_slash", res |-> r.res, ok |-> hasTitan]
         /\ UNCHANGED <<now, titan, pl, frames, calls, rs, odm, titans, gm>>

UpdateCombo ==
    /\ cs' = CombatSystem_update_combo(cs, now)
    /\ ret' = NoRet
    /\ UNCHANGED <<now, hb, titan, pl, frames, calls, rs, odm, titans, gm>>

ResetCombo ==
    /\ cs' = CombatSystem_reset_combo(cs)
    /\ ret' = NoRet
    /\ UNCHANGED <<now, hb, titan, pl, frames, calls, rs, odm, titans, gm>>

RestoreBladeDurability ==
    /\ cs' = restore_blade_durability(cs)
    /\ ret' = NoRet
    /\ UNCHANGED <<now, hb, titan, pl, frames, calls, rs, odm, titans, gm>>

SetBladeDurability ==
    /\ \E d \in DurabilityArgs : cs' = set_blade_durability(cs, d)
    /\ ret' = NoRet
    /\ UNCHANGED <<now, hb, titan, pl, frames, calls, rs, odm, titans, gm>>

CombatSetState ==
    /\ \E st \in CombatStates : cs' = CombatSystem_set_state(cs, st)
    /\ ret' = NoRet
    /\ UNCHANGED <<now, hb, titan, pl, frames, calls, rs, odm, titans, gm>>

CombatReset ==
    /\ cs' = CombatSystem_reset(cs)
    /\ ret' = NoRet
    /\ UNCHANGED <<now, hb, titan, pl, frames, calls, rs, odm, titans, gm>>

NextCombat ==
    \/ Tick
    \/ SpawnHitbox
    \/ PerformSlash
    \/ UpdateCombo
    \/ ResetCombo
    \/ RestoreBladeDurability
    \/ SetBladeDurability
    \/ CombatSetState
    \/ CombatReset

SpecCombat == InitCombat /\ [][NextCombat]_vars

\* =================================================== CombatSystem claims
\* the nape sphere, stated from the geometry alone
InNape(h, point) ==
    /\ point # <<>>
    /\ DistanceSq(point, get_absolute_nape_position(h)) <= h.nape_radius * h.nape_radius

\* prior health values a slash is tried at, besides the reachable ones: also
\* more health than one nape hit deals
ProbeHealths == {1, 300, 1000, 10000}

\* C1: an accepted perform_slash whose hit point lies within napeRadius of the
\* absolute nape position returns hit, is_critical and killed and leaves the
\* target dead with health 0, for every prior health and every attack speed.
C1_NapeHitAlwaysKills ==
    \A hit_point \in HitPoints, attack_speed \in AttackSpeeds,
       health \in ProbeHealths \cup {hb.health} :
      LET h == [hb EXCEPT !.health = health]
          r == CombatSystem_perform_slash(cs, h, TRUE, hit_point, attack_speed, now)
      IN (cs.blade_durability > 0 /\ h.is_alive /\ InNape(h, hit_point))
           => /\ r.res.hit /\ r.res.is_critical /\ r.res.killed
              /\ ~r.hb.is_alive /\ r.hb.health = 0

\* a nape slash on the sphere's boundary has killed a target
C1_Witness ==
    /\ ret.op = "perform_slash"
    /\ ret.res.hit /\ ret.res.is_critical /\ ret.res.killed
    /\ ~hb.is_alive /\ hb.health = 0

\* C2: perform_slash with blade durability <= 0, or with a missing or dead
\* target, returns the default AttackResult and changes neither the combat
\* system (durability, combo, last-kill time, score, style) nor the target.
C2_RefusedSlashIsNoOp ==
    \A hasTitan \in BOOLEAN, hit_point \in HitPoints, attack_speed \in AttackSpeeds :
      LET r == CombatSystem_perform_slash(cs, hb, hasTitan, hit_point, attack_speed, now)
      IN (cs.blade_durability <= 0 \/ ~hasTitan \/ ~hb.is_alive)
           => r.res = AttackResult /\ r.cs = cs /\ r.hb = hb

\* a slash was refused for lack of durability while the target was alive
C2_Witness ==
    /\ ret.op = "perform_slash" /\ ret.ok
    /\ ret.res = AttackResult
    /\ cs.blade_durability <= 0
    /\ hb.is_alive

\* C6: a kill within comboTimeout of the previous kill adds exactly 1 to
\* combo_count, a kill after a longer gap (or the first kill) sets it to 1,
\* and update_combo zeroes the combo once the gap exceeds comboTimeout and
\* otherwise leaves it; kills at t = 0, 2, 6 give combo 1, 2, 1.
C6_ComboWindow ==
    /\ \A hit_point \in HitPoints, attack_speed \in AttackSpeeds :
         LET r == CombatSystem_perform_slash(cs, hb, TRUE, hit_point, attack_speed, now)
         IN r.res.killed =>
              /\ r.cs.combo_count =
                   IF cs.last_kill_time # 0 /\ now - cs.last_kill_time <= COMBO_TIMEOUT
                   THEN cs.combo_count + 1 ELSE 1
              /\ r.cs.last_kill_time = now
    /\ CombatSystem_update_combo(cs, now).combo_count =
         IF now - cs.last_kill_time > COMBO_TIMEOUT THEN 0 ELSE cs.combo_count
    /\ \A t0 \in {0, now} :
         LET k1 == update_combo_on_kill(CombatSystem(BASE_ATTACK_DAMAGE), t0)
             k2 == update_combo_on_kill(k1, t0 + 2)
             k3 == update_combo_on_kill(k2, t0 + 6)
         IN <<k1.combo_count, k2.combo_count, k3.combo_count>> = <<1, 2, 1>>

\* a kill exactly comboTimeout after the previous kill raised the combo to 2
C6_Witness ==
    /\ ret.op = "perform_slash" /\ ret.res.killed
    /\ cs.combo_count = 2
    /\ cs.last_kill_time = now
    /\ now = ClockStart + COMBO_TIMEOUT
    /\ hb.id = 2

\* the score of a kill as the specification states it, in exact arithmetic
ExactKillScore(combo, style) ==
    (BASE_KILL_SCORE * Min(10 + (combo - 1), 30) * style) \div 100

StyleOf(attack_speed) ==
    IF attack_speed > STYLE_MULTIPLIER_SPEED_THRESHOLD
    THEN STYLE_MULTIPLIER_BONUS ELSE STYLE_MULTIPLIER_NONE

\* C7: every kill adds exactly trunc(100 x min(1 + (combo - 1) x 0.1, 3.0) x
\* style) to total_score, combo being the count after the kill; a slash that
\* does not kill leaves score and combo unchanged; the first kill of a fresh
\* system at speed 0 gives combo 1 and score 100.
C7_KillScore ==
    /\ \A hasTitan \in BOOLEAN, hit_point \in HitPoints, attack_speed \in AttackSpeeds :
         LET r == CombatSystem_perform_slash(cs, hb, hasTitan, hit_point, attack_speed, now)
         IN IF r.res.killed
            THEN r.cs.total_score - cs.total_score =
                   ExactKillScore(r.cs.combo_count, StyleOf(attack_speed))
            ELSE /\ r.cs.total_score = cs.total_score
                 /\ r.cs.combo_count = cs.combo_count
    /\ LET r == CombatSystem_perform_slash(CombatSystem(BASE_ATTACK_DAMAGE),
                    TitanHitbox(1, HitboxPosition, NapeCenter, NapeRadius, 1000),
                    TRUE, NapeCenter, 0, now)
       IN r.res.killed /\ r.cs.combo_count = 1 /\ r.cs.total_score = 100


\* ================================================== TitanAI state machine
MaxFrames == 4

TitanProfiles == {<<normal_3m, standard>>, <<armored_15m, cautious>>}
FrameTimes == {2}
PlayerPositions == {<<>>, <<20>>, <<350>>, <<500>>}
TitanDamages == {500, 2000}
WanderTurns == {1, 0 - 1}

\* saved snapshots handed to set_state: an empty one, a dead titan's, a
\* stunned titan's, and one whose state name is not a TitanState
TitanSnapshots ==
    {[position |-> <<>>, health |-> <<>>, is_alive |-> <<>>, current_state |-> <<>>],
     [position |-> <<0>>, health |-> <<0>>, is_alive |-> <<FALSE>>,
      current_state |-> <<"dying">>],
     [position |-> <<0>>, health |-> <<250>>, is_alive |-> <<TRUE>>,
      current_state |-> <<"stunned">>],
     [position |-> <<>>, health |-> <<>>, is_alive |-> <<>>,
      current_state |-> <<"sleeping">>]}

\* ret keeps the value take_damage returned; the other operations return
\* nothing the properties read
Returned(op, ok) == [op |-> op, res |-> AttackResult, ok |-> ok]

InitTitan ==
    /\ now = ClockStart
    /\ cs = CombatSystem(BASE_ATTACK_DAMAGE)
    /\ hb = TitanHitbox(1, HitboxPosition, NapeCenter, NapeRadius, 1000)
    /\ ret = NoRet
    /\ \E p \in TitanProfiles : titan = TitanAI(p[1], p[2], 0)
    /\ pl = Player
    /\ frames = 0
    /\ calls = 0
    /\ rs = ResourceSystem
    /\ odm = ODMSystem
    /\ titans = <<>>
    /\ gm = GameManager

TitanUpdate ==
    /\ frames < MaxFrames
    /\ \E dt \in FrameTimes, player_position \in PlayerPositions,
          turn \in WanderTurns, choose_grab \in BOOLEAN, chance_failed \in BOOLEAN :
         titan' = TitanAI_update(titan, dt, player_position, turn,
                                 choose_grab, chance_failed)
    /\ frames' = frames + 1
    /\ UNCHANGED calls
    /\ ret' = NoRet
    /\ UNCHANGED <<now, cs, hb, pl, rs, odm, titans, gm>>

TitanDetectPlayer ==
    /\ \E player_position \in PlayerPositions :
         LET r == detect_player(titan, player_position)
         IN /\ titan' = r.titan
            /\ ret' = NoRet
    /\ UNCHANGED <<now, cs, hb, pl, frames, calls, rs, odm, titans, gm>>

TitanPerformAttack ==
    /\ LET r == perform_attack(titan)
       IN /\ titan' = r.titan
          /\ ret' = NoRet
    /\ UNCHANGED <<now, cs, hb, pl, frames, calls, rs, odm, titans, gm>>

TitanPerformGrab ==
    /\ \E chance_failed \in BOOLEAN :
         LET r == perform_grab(titan, chance_failed)
         IN /\ titan' = r.titan
            /\ ret' = NoRet
    /\ UNCHANGED <<now, cs, hb, pl, frames, calls, rs, odm, titans, gm>>

TitanTryAttackOrGrab ==
    /\ \E player_position \in PlayerPositions,
          choose_grab \in BOOLEAN, chance_failed \in BOOLEAN :
         LET r == try_attack_or_grab(titan, player_position, choose_grab, chance_failed)
         IN /\ titan' = r.titan
            /\ ret' = NoRet
    /\ UNCHANGED <<now, cs, hb, pl, frames, calls, rs, odm, titans, gm>>

TitanTakeDamage ==
    /\ \E damage \in TitanDamages, hit_nape \in BOOLEAN :
         LET r == TitanAI_take_damage(titan, damage, hit_nape)
         IN /\ titan' = r.titan
            /\ ret' = Returned(IF hit_nape THEN "take_damage_nape" ELSE "take_damage",
                               r.killed)
    /\ UNCHANGED <<now, cs, hb, pl, frames, calls, rs, odm, titans, gm>>

TitanSetState ==
    /\ \E state \in TitanSnapshots : titan' = TitanAI_set_state(titan, state)
    /\ ret' = NoRet
    /\ UNCHANGED <<now, cs, hb, pl, frames, calls, rs, odm, titans, gm>>

TitanReset ==
    /\ titan' = TitanAI_reset(titan)
    /\ ret' = NoRet
    /\ UNCHANGED <<now, cs, hb, pl, frames, calls, rs, odm, titans, gm>>

NextTitan ==
    \/ TitanUpdate
    \/ TitanDetectPlayer
    \/ TitanPerformAttack
    \/ TitanPerformGrab
    \/ TitanTryAttackOrGrab
    \/ TitanTakeDamage
    \/ TitanSetState
    \/ TitanReset

SpecTitan == InitTitan /\ [][NextTitan]_vars


\* ---------------------------------------------------------- TitanAI claims
\* damage (1 - armor_reduction), what a hit off the nape takes from health
EffectiveDamage(t, damage) == (damage * (100 - t.data.armor_reduction)) \div 100

DeadAndDying(t) == ~t.is_alive /\ t.health = 0 /\ t.current_state = "dying"

\* C3: take_damage off the nape that brings health to 0 or below returns true
\* and leaves health 0, is_alive false and the state Dying; every take_damage
\* after it, nape or not and whatever the damage, returns false and leaves
\* is_alive false, health 0 and the state Dying.
C3_LethalDamageIsFinal ==
    /\ (ret.op = "take_damage" /\ ret.ok) => DeadAndDying(titan)
    /\ \A damage \in TitanDamages :
         LET r == TitanAI_take_damage(titan, damage, FALSE)
         IN (titan.is_alive /\ titan.health - EffectiveDamage(titan, damage) <= 0)
              => /\ r.killed
                 /\ DeadAndDying(r.titan)
                 /\ \A later \in TitanDamages, hit_nape \in BOOLEAN :
                      LET r2 == TitanAI_take_damage(r.titan, later, hit_nape)
                      IN ~r2.killed /\ DeadAndDying(r2.titan)

\* a hit off the nape has just taken the last of the health: exactly 0 is left
C3_Witness ==
    /\ ret.op = "take_damage" /\ ret.ok
    /\ DeadAndDying(titan)
    /\ titan.data.armor_reduction = 0
    /\ titan.previous_state = "attacking"

\* C4: once current_state is Dying it is still Dying after update,
\* detect_player, take_damage, perform_attack, perform_grab and
\* try_attack_or_grab, whatever their arguments and random draws.
C4_DyingIsTerminal ==
    titan.current_state = "dying" =>
      /\ \A dt \in FrameTimes, player_position \in PlayerPositions,
            turn \in WanderTurns, choose_grab \in BOOLEAN, chance_failed \in BOOLEAN :
           TitanAI_update(titan, dt, player_position, turn, choose_grab,
                          chance_failed).current_state = "dying"
      /\ \A player_position \in PlayerPositions :
           detect_player(titan, player_position).titan.current_state = "dying"
      /\ \A damage \in TitanDamages, hit_nape \in BOOLEAN :
           TitanAI_take_damage(titan, damage, hit_nape).titan.current_state = "dying"
      /\ perform_attack(titan).titan.current_state = "dying"
      /\ \A chance_failed \in BOOLEAN :
           perform_grab(titan, chance_failed).titan.current_state = "dying"
      /\ \A player_position \in PlayerPositions,
            choose_grab \in BOOLEAN, chance_failed \in BOOLEAN :
           try_attack_or_grab(titan, player_position, choose_grab,
                              chance_failed).titan.current_state = "dying"

\* the hitboxes a blow has just killed
KilledHitboxes ==
    {TitanHitbox_take_damage(hb, damage, is_nape_hit).hb :
        damage \in TitanDamages, is_nape_hit \in BOOLEAN} \ {hb}

\* is_alive stays false under take_damage, update, detect_player,
\* perform_attack, perform_grab and try_attack_or_grab of a dead TitanAI, and
\* under take_damage of a dead TitanHitbox
NoRevivalInPlay ==
    /\ ~titan.is_alive =>
         /\ \A damage \in TitanDamages, hit_nape \in BOOLEAN :
              ~TitanAI_take_damage(titan, damage, hit_nape).titan.is_alive
         /\ \A dt \in FrameTimes, player_position \in PlayerPositions,
               turn \in WanderTurns, choose_grab \in BOOLEAN, chance_failed \in BOOLEAN :
              ~TitanAI_update(titan, dt, player_position, turn, choose_grab,
                              chance_failed).is_alive
         /\ \A player_position \in PlayerPositions :
              ~detect_player(titan, player_position).titan.is_alive
         /\ ~perform_attack(titan).titan.is_alive
         /\ \A chance_failed \in BOOLEAN :
              ~perform_grab(titan, chance_failed).titan.is_alive
         /\ \A player_position \in PlayerPositions,
               choose_grab \in BOOLEAN, chance_failed \in BOOLEAN :
              ~try_attack_or_grab(titan, player_position, choose_grab,
                                  chance_failed).titan.is_alive
    /\ \A h \in KilledHitboxes :
         ~h.is_alive =>
           \A damage \in TitanDamages, is_nape_hit \in BOOLEAN :
             ~TitanHitbox_take_damage(h, damage, is_nape_hit).hb.is_alive

\* C5 as the code has it: no operation of play revives a dead TitanAI or a
\* dead TitanHitbox; reset() always makes a TitanAI alive again, and
\* set_state() gives it the snapshot's is_alive, true when the key is missing.
C5_RevivalOnlyByRestore ==
    /\ NoRevivalInPlay
    /\ ~titan.is_alive =>
         /\ TitanAI_reset(titan).is_alive
         /\ \A state \in TitanSnapshots :
              TitanAI_set_state(titan, state).is_alive = Get(state.is_alive, TRUE)

\* a dead titan has just been hit again and stayed dead
C5_Witness ==
    /\ ~titan.is_alive
    /\ ret.op \in {"take_damage", "take_damage_nape"} /\ ~ret.ok
    /\ \E h \in KilledHitboxes : ~h.is_alive

\* C5 as stated: reset and set_state do not revive either
C5_NoResurrection ==
    /\ NoRevivalInPlay
    /\ ~titan.is_alive =>
         /\ ~TitanAI_reset(titan).is_alive
         /\ \A state \in TitanSnapshots : ~TitanAI_set_state(titan, state).is_alive


\* ========================================================== Player actions
\* calls made on the player in one behaviour
MaxCalls == 4

MoveDirections == {ZeroVec, Vec3(1, 0, 0)}
HookDirections == {Vec3(0, 1, 0)}
HookSides == {"left", "right"}

\* the level's surfaces: a wall 30 m overhead, a nearer one that is not
\* valid, one out of hook range
LevelSurfaces ==
    <<Surface(Vec3(0, 600, 0), TRUE), Surface(Vec3(0, 400, 0), FALSE),
      Surface(Vec3(0, 1200, 0), TRUE)>>

PlayerDamages == {300, 1000}
HealAmounts == {200}
Grabbers == {<<>>, <<800>>}
TypedKeys == {"space", "E", "x"}
RespawnPositions == {<<>>, <<Vec3(0, 200, 0)>>}
PlayerHitPoints == {NapeCenter, Vec3(0, 0, 0)}

NoResourceState == [gas_level |-> <<>>, blade_count |-> <<>>, blade_durability |-> <<>>]
NoCombatState == [blade_durability |-> <<>>, combo_count |-> <<>>, total_score |-> <<>>]
NoOdmState == [position |-> <<>>, velocity |-> <<>>, gas_level |-> <<>>]

\* snapshots handed to Player.set_state: an empty one, one that holds only
\* the resource state of a half-worn blade, one whose blade is nearly worn out
\* in both systems, a dead player's get_state(), and one whose gas is nearly
\* spent
PlayerSnapshots ==
    {[position |-> <<>>, health |-> <<>>, is_alive |-> <<>>,
      resource_state |-> <<>>, combat_state |-> <<>>, odm_state |-> <<>>],
     [position |-> <<>>, health |-> <<>>, is_alive |-> <<>>,
      resource_state |-> <<[NoResourceState EXCEPT !.gas_level = <<8>>]>>,
      combat_state |-> <<>>, odm_state |-> <<>>],
     [position |-> <<>>, health |-> <<>>, is_alive |-> <<>>,
      resource_state |-> <<[NoResourceState EXCEPT !.blade_durability = <<50>>]>>,
      combat_state |-> <<>>, odm_state |-> <<>>],
     [position |-> <<>>, health |-> <<>>, is_alive |-> <<>>,
      resource_state |-> <<[NoResourceState EXCEPT !.blade_durability = <<5>>]>>,
      combat_state |-> <<[NoCombatState EXCEPT !.blade_durability = <<5>>]>>,
      odm_state |-> <<>>],
     [position |-> <<ZeroVec>>, health |-> <<0>>, is_alive |-> <<FALSE>>,
      resource_state |-> <<[gas_level |-> <<100>>, blade_count |-> <<8>>,
                            blade_durability |-> <<100>>]>>,
      combat_state |-> <<[blade_durability |-> <<100>>, combo_count |-> <<0>>,
                          total_score |-> <<0>>]>>,
      odm_state |-> <<[position |-> <<ZeroVec>>, velocity |-> <<ZeroVec>>,
                       gas_level |-> <<100>>]>>]}

InitPlayer ==
    /\ now = ClockStart
    /\ cs = CombatSystem(BASE_ATTACK_DAMAGE)
    /\ \E h \in HitboxHealths :
         hb = TitanHitbox(1, HitboxPosition, NapeCenter, NapeRadius, h)
    /\ ret = NoRet
    /\ titan = DefaultTitan
    /\ pl = Player
    /\ frames = 0
    /\ calls = 0
    /\ rs = ResourceSystem
    /\ odm = ODMSystem
    /\ titans = <<>>
    /\ gm = GameManager

PlayerUpdate ==
    /\ calls < MaxCalls
    /\ calls' = calls + 1
    /\ \E dt \in FrameTimes :
         LET r == Player_update(pl, cs, dt, now)
         IN pl' = r.pl /\ cs' = r.cs
    /\ ret' = NoRet
    /\ UNCHANGED <<now, hb, titan, frames, rs, odm, titans, gm>>

PlayerMove ==
    /\ calls < MaxCalls
    /\ calls' = calls + 1
    /\ \E direction \in MoveDirections, dt \in FrameTimes :
         pl' = Player_move(pl, direction, dt)
    /\ ret' = NoRet
    /\ UNCHANGED <<now, cs, hb, titan, frames, rs, odm, titans, gm>>

PlayerJump ==
    /\ calls < MaxCalls
    /\ calls' = calls + 1
    /\ pl' = Player_jump(pl).pl
    /\ ret' = NoRet
    /\ UNCHANGED <<now, cs, hb, titan, frames, rs, odm, titans, gm>>

PlayerSetSurfaces ==
    /\ calls < MaxCalls
    /\ calls' = calls + 1
    /\ pl' = Player_set_surfaces(pl, LevelSurfaces)
    /\ ret' = NoRet
    /\ UNCHANGED <<now, cs, hb, titan, frames, rs, odm, titans, gm>>

PlayerFireHook ==
    /\ calls < MaxCalls
    /\ calls' = calls + 1
    /\ \E direction \in HookDirections, side \in HookSides :
         pl' = Player_fire_hook(pl, direction, side).pl
    /\ ret' = NoRet
    /\ UNCHANGED <<now, cs, hb, titan, frames, rs, odm, titans, gm>>

PlayerReleaseHook ==
    /\ calls < MaxCalls
    /\ calls' = calls + 1
    /\ \E side \in HookSides : pl' = Player_release_hook(pl, side)
    /\ ret' = NoRet
    /\ UNCHANGED <<now, cs, hb, titan, frames, rs, odm, titans, gm>>

PlayerReleaseAllHooks ==
    /\ calls < MaxCalls
    /\ calls' = calls + 1
    /\ pl' = Player_release_all_hooks(pl)
    /\ ret' = NoRet
    /\ UNCHANGED <<now, cs, hb, titan, frames, rs, odm, titans, gm>>

PlayerActivateBoost ==
    /\ calls < MaxCalls
    /\ calls' = calls + 1
    /\ pl' = Player_activate_boost(pl).pl
    /\ ret' = NoRet
    /\ UNCHANGED <<now, cs, hb, titan, frames, rs, odm, titans, gm>>

PlayerAttack ==
    /\ calls < MaxCalls
    /\ calls' = calls + 1
    /\ \E hasTitan \in BOOLEAN, hit_point \in PlayerHitPoints :
         LET r == Player_attack(pl, cs, hb, hasTitan, hit_point, now)
         IN /\ pl' = r.pl /\ cs' = r.cs /\ hb' = r.hb
            /\ ret' = [op |-> "attack", res |-> r.res, ok |-> hasTitan]
    /\ UNCHANGED <<now, titan, frames, rs, odm, titans, gm>>

PlayerSwitchBlade ==
    /\ calls < MaxCalls
    /\ calls' = calls + 1
    /\ LET r == Player_switch_blade(pl, cs)
       IN pl' = r.pl /\ cs' = r.cs
    /\ ret' = NoRet
    /\ UNCHANGED <<now, hb, titan, frames, rs, odm, titans, gm>>

PlayerInteractWithSupplyStation ==
    /\ calls < MaxCalls
    /\ calls' = calls + 1
    /\ LET r == Player_interact_with_supply_station(pl, cs)
       IN pl' = r.pl /\ cs' = r.cs
    /\ ret' = NoRet
    /\ UNCHANGED <<now, hb, titan, frames, rs, odm, titans, gm>>

PlayerTakeDamage ==
    /\ calls < MaxCalls
    /\ calls' = calls + 1
    /\ \E damage \in PlayerDamages :
         LET r == Player_take_damage(pl, damage)
         IN pl' = r.pl /\ ret' = Returned("player_take_damage", r.ok)
    /\ UNCHANGED <<now, cs, hb, titan, frames, rs, odm, titans, gm>>

PlayerHeal ==
    /\ calls < MaxCalls
    /\ calls' = calls + 1
    /\ \E amount \in HealAmounts : pl' = Player_heal(pl, amount)
    /\ ret' = NoRet
    /\ UNCHANGED <<now, cs, hb, titan, frames, rs, odm, titans, gm>>

PlayerRespawn ==
    /\ calls < MaxCalls
    /\ calls' = calls + 1
    /\ \E position \in RespawnPositions : pl' = Player_respawn(pl, position)
    /\ ret' = NoRet
    /\ UNCHANGED <<now, cs, hb, titan, frames, rs, odm, titans, gm>>

PlayerOnGrabbed ==
    /\ calls < MaxCalls
    /\ calls' = calls + 1
    /\ \E grabber \in Grabbers, required_key \in QTE_KEYS :
         pl' = Player_on_grabbed(pl, grabber, required_key)
    /\ ret' = NoRet
    /\ UNCHANGED <<now, cs, hb, titan, frames, rs, odm, titans, gm>>

PlayerProcessQteInput ==
    /\ calls < MaxCalls
    /\ calls' = calls + 1
    /\ \E key \in TypedKeys : pl' = Player_process_qte_input(pl, key).pl
    /\ ret' = NoRet
    /\ UNCHANGED <<now, cs, hb, titan, frames, rs, odm, titans, gm>>

PlayerSetState ==
    /\ calls < MaxCalls
    /\ calls' = calls + 1
    /\ \E state \in PlayerSnapshots :
         LET r == Player_set_state(pl, cs, state)
         IN pl' = r.pl /\ cs' = r.cs
    /\ ret' = NoRet
    /\ UNCHANGED <<now, hb, titan, frames, rs, odm, titans, gm>>

PlayerReset ==
    /\ calls < MaxCalls
    /\ calls' = calls + 1
    /\ LET r == Player_reset(pl, cs)
       IN pl' = r.pl /\ cs' = r.cs
    /\ ret' = NoRet
    /\ UNCHANGED <<now, hb, titan, frames, rs, odm, titans, gm>>

NextPlayer ==
    \/ PlayerUpdate
    \/ PlayerMove
    \/ PlayerJump
    \/ PlayerSetSurfaces
    \/ PlayerFireHook
    \/ PlayerReleaseHook
    \/ PlayerReleaseAllHooks
    \/ PlayerActivateBoost
    \/ PlayerAttack
    \/ PlayerSwitchBlade
    \/ PlayerInteractWithSupplyStation
    \/ PlayerTakeDamage
    \/ PlayerHeal
    \/ PlayerRespawn
    \/ PlayerOnGrabbed
    \/ PlayerProcessQteInput
    \/ PlayerSetState
    \/ PlayerReset

SpecPlayer == InitPlayer /\ [][NextPlayer]_vars


\* ------------------------------------------------------------ Player claims

\* C8: the QTE exists only while the player is captured: current_qte is
\* non-null only in the Grabbed state, and it is gone after a successful
\* process_qte_input, after a failed QTE is resolved, and after a death by
\* take_damage.
C8_QTEOnlyWhileGrabbed ==
    /\ pl.current_qte # <<>> => pl.current_state = "grabbed"
    /\ \A key \in TypedKeys :
         LET r == Player_process_qte_input(pl, key)
         IN r.ok => r.pl.current_qte = <<>>
    /\ pl.current_qte # <<>> => fail_qte(pl).current_qte = <<>>
    /\ \A damage \in PlayerDamages :
         LET r == Player_take_damage(pl, damage)
         IN ~r.pl.is_alive => r.pl.current_qte = <<>>

DeadPlayer(p) == p.current_state = "dead" /\ ~p.is_alive /\ p.health = 0

\* the player after each call that C9 says cannot leave Dead
AfterCallsOfPlay ==
    {Player_update(pl, cs, dt, now).pl : dt \in FrameTimes}
      \cup {Player_move(pl, direction, dt) :
              direction \in MoveDirections, dt \in FrameTimes}
      \cup {Player_jump(pl).pl}
      \cup {Player_fire_hook(pl, direction, side).pl :
              direction \in HookDirections, side \in HookSides}
      \cup {Player_release_hook(pl, side) : side \in HookSides}
      \cup {Player_release_all_hooks(pl)}
      \cup {Player_activate_boost(pl).pl}
      \cup {Player_attack(pl, cs, hb, hasTitan, hit_point, now).pl :
              hasTitan \in BOOLEAN, hit_point \in PlayerHitPoints}
      \cup {Player_switch_blade(pl, cs).pl}
      \cup {Player_heal(pl, amount) : amount \in HealAmounts}
      \cup {Player_on_grabbed(pl, grabber, required_key) :
              grabber \in Grabbers, required_key \in QTE_KEYS}
      \cup {Player_process_qte_input(pl, key).pl : key \in TypedKeys}
      \cup {Player_take_damage(pl, damage).pl : damage \in PlayerDamages}

\* C9: take_damage never leaves health below 0; when it brings a living
\* player's health to 0 the player is Dead, not alive, at rest and unhooked;
\* and from Dead every call of play (update, move, jump, fire_hook,
\* release_hook, release_all_hooks, activate_boost, attack, switch_blade, heal,
\* on_grabbed, process_qte_input, take_damage) leaves the player Dead, not
\* alive, with health 0.
C9_DeadIsTerminal ==
    /\ \A damage \in PlayerDamages :
         LET r == Player_take_damage(pl, damage).pl
         IN /\ r.health >= 0
            /\ (pl.is_alive /\ r.health = 0) =>
                  /\ DeadPlayer(r)
                  /\ r.velocity = ZeroVec
                  /\ ~is_any_hook_attached(r.odm)
    /\ DeadPlayer(pl) => \A p \in AfterCallsOfPlay : DeadPlayer(p)

\* C10: attack is a no-op returning the default AttackResult when the player
\* is dead, captured or out of ResourceSystem blade durability, and the blade
\* durability of ResourceSystem equals that of CombatSystem after any sequence
\* of attack, switch_blade, interact_with_supply_station, reset and set_state.
C10_AttackMirrorsDurability ==
    /\ \A hasTitan \in BOOLEAN, hit_point \in PlayerHitPoints :
         LET r == Player_attack(pl, cs, hb, hasTitan, hit_point, now)
         IN (~pl.is_alive \/ pl.current_state = "grabbed"
               \/ pl.resource.blade_durability <= 0) =>
              r = [pl |-> pl, cs |-> cs, hb |-> hb, res |-> AttackResult]
    /\ pl.resource.blade_durability = cs.blade_durability

\* ------------------------------------------------- TitanAI behaviour claims
WithinRange(t, player_position, range) ==
    player_position # <<>> /\ distance_to(t.position, player_position[1]) <= range

\* C11: update(dt, player_position) on a living titan in Idle or Wandering
\* whose distance to the player is at most detection_range leaves the titan
\* in Pursuing, with no detect_player call.
C11_UpdateDetectsPlayer ==
    (titan.is_alive /\ titan.current_state \in {"idle", "wandering"}) =>
      \A dt \in FrameTimes, player_position \in PlayerPositions,
         turn \in WanderTurns, choose_grab \in BOOLEAN, chance_failed \in BOOLEAN :
        WithinRange(titan, player_position, titan.data.detection_range) =>
          TitanAI_update(titan, dt, player_position, turn, choose_grab,
                         chance_failed).current_state = "pursuing"

\* the target update leaves the titan with: the player position handed in, or
\* the one it already had
TargetAfter(t, player_position) ==
    IF player_position # <<>> THEN player_position ELSE t.target

\* C12: update on a titan in Pursuing whose target is within attack_range and
\* whose attack cooldown has elapsed leaves it in Attacking or Grabbing with
\* the cooldown restarted, whatever the random draws.
C12_PursuingStrikes ==
    (titan.is_alive /\ titan.current_state = "pursuing"
       /\ titan.attack_cooldown <= 0 /\ titan.stun_timer <= 0) =>
      \A dt \in FrameTimes, player_position \in PlayerPositions,
         turn \in WanderTurns, choose_grab \in BOOLEAN, chance_failed \in BOOLEAN :
        WithinRange(titan, TargetAfter(titan, player_position),
                    titan.data.attack_range) =>
          LET u == TitanAI_update(titan, dt, player_position, turn, choose_grab,
                                  chance_failed)
          IN u.current_state \in {"attacking", "grabbing"} /\ u.attack_cooldown > 0

\* take_damage(damage) off the nape leaves the titan alive and low on health
LowHealthHit(t, damage) ==
    LET left == t.health - EffectiveDamage(t, damage)
    IN /\ t.is_alive
       /\ left > 0
       /\ t.behavior.retreat_threshold > 0
       /\ left * 100 < t.behavior.retreat_threshold * t.max_health

\* take_damage that leaves the titan low on health stuns it for STUN_TIME
\* from any state, the state it is stunned in being the one to resume
StunnedByLowHealthHit ==
    \A damage \in TitanDamages :
      LowHealthHit(titan, damage) =>
        LET r == TitanAI_take_damage(titan, damage, FALSE)
        IN /\ ~r.killed
           /\ r.titan.current_state = "stunned"
           /\ r.titan.stun_timer = STUN_TIME
           /\ titan.current_state # "stunned" =>
                r.titan.previous_state = titan.current_state
           /\ titan.current_state = "stunned" =>
                r.titan.previous_state = titan.previous_state

\* a stunned titan refuses to attack or grab, and an update that does not use
\* up the stun leaves it stunned where it stands
StunnedIsInert ==
    (titan.is_alive /\ titan.current_state = "stunned" /\ titan.stun_timer > 0) =>
      /\ perform_attack(titan) = [titan |-> titan, success |-> FALSE]
      /\ \A chance_failed \in BOOLEAN :
           perform_grab(titan, chance_failed) = [titan |-> titan, success |-> FALSE]
      /\ \A player_position \in PlayerPositions,
            choose_grab \in BOOLEAN, chance_failed \in BOOLEAN :
           try_attack_or_grab(titan, player_position, choose_grab, chance_failed)
             = [titan |-> titan, success |-> FALSE]
      /\ \A dt \in 1..(titan.stun_timer - 1), player_position \in PlayerPositions,
            turn \in WanderTurns, choose_grab \in BOOLEAN, chance_failed \in BOOLEAN :
           LET u == TitanAI_update(titan, dt, player_position, turn, choose_grab,
                                   chance_failed)
           IN /\ u.current_state = "stunned"
              /\ u.previous_state = titan.previous_state
              /\ u.stun_timer = titan.stun_timer - dt
              /\ u.position = titan.position
              /\ u.velocity = titan.velocity
              /\ u.attack_cooldown <= titan.attack_cooldown

\* the titans an update that uses up the stun can leave
AfterStun ==
    {TitanAI_update(titan, dt, player_position, turn, choose_grab, chance_failed) :
        dt \in titan.stun_timer..STUN_TIME, player_position \in PlayerPositions,
        turn \in WanderTurns, choose_grab \in BOOLEAN, chance_failed \in BOOLEAN}

\* C13 (as stated): non-lethal damage that leaves health below a positive
\* retreat_threshold stuns a living titan from any state; while stunned it
\* does not move, attack or grab; and the update that completes 1 s of stun
\* leaves the titan in exactly the state it was in before being stunned.
C13_StunResumesExactState ==
    /\ StunnedByLowHealthHit
    /\ StunnedIsInert
    /\ (titan.is_alive /\ titan.current_state = "stunned" /\ titan.stun_timer > 0) =>
         \A u \in AfterStun : u.current_state = titan.previous_state

\* C13 (amended): the same, but the update that completes the stun resumes
\* the pre-stun state and runs its behaviour in the same call, so a titan
\* stunned while Pursuing may end that update already Attacking, Grabbing or
\* (target lost) Wandering, having passed through Pursuing.
C13_StunResumesPreStunBehaviour ==
    /\ StunnedByLowHealthHit
    /\ StunnedIsInert
    /\ (titan.is_alive /\ titan.current_state = "stunned" /\ titan.stun_timer > 0) =>
         \A u \in AfterStun :
           /\ u.stun_timer <= 0
           /\ \/ u.current_state = titan.previous_state
              \/ /\ titan.previous_state = "pursuing"
                 /\ u.previous_state = "pursuing"
                 /\ u.current_state \in {"attacking", "grabbing", "wandering"}

\* a low-health hit has just stunned a titan that was pursuing
C13_Witness ==
    /\ ret.op = "take_damage" /\ ~ret.ok
    /\ titan.is_alive /\ titan.current_state = "stunned"
    /\ titan.previous_state = "pursuing"
    /\ titan.stun_timer = STUN_TIME
    /\ titan.health * 100 < titan.behavior.retreat_threshold * titan.max_health

\* 2 / attack_frequency seconds
AttackInterval(t) == ATTACK_INTERVAL_BASE \div t.behavior.attack_frequency

MayStrike(t) == t.attack_cooldown <= 0 /\ t.current_state # "stunned"

\* perform_attack and perform_grab succeed only with the cooldown elapsed and
\* the titan not stunned, set the cooldown, and change nothing when refused
AttemptsAreGated ==
    /\ LET r == perform_attack(titan)
       IN IF MayStrike(titan)
          THEN /\ r.success
               /\ r.titan.attack_cooldown = AttackInterval(titan)
               /\ r.titan.current_state = "attacking"
          ELSE r = [titan |-> titan, success |-> FALSE]
    /\ \A chance_failed \in BOOLEAN :
         LET r == perform_grab(titan, chance_failed)
         IN IF r.success
            THEN /\ MayStrike(titan)
                 /\ r.titan.attack_cooldown = GRAB_COOLDOWN
                 /\ r.titan.current_state = "grabbing"
            ELSE r.titan = titan
    /\ \A player_position \in PlayerPositions,
          choose_grab \in BOOLEAN, chance_failed \in BOOLEAN :
         LET r == try_attack_or_grab(titan, player_position, choose_grab, chance_failed)
         IN IF r.success
            THEN MayStrike(titan)
                   /\ r.titan.attack_cooldown \in {AttackInterval(titan), GRAB_COOLDOWN}
            ELSE r.titan = titan

\* a step of update takes dt off a running cooldown, and may strike once the
\* cooldown has run out
CooldownRunsInUpdate ==
    /\ frames' = frames + 1
    /\ \E dt \in FrameTimes :
         \/ titan'.attack_cooldown = titan.attack_cooldown - dt
         \/ /\ titan.attack_cooldown - dt <= 0
            /\ titan'.attack_cooldown \in {AttackInterval(titan), GRAB_COOLDOWN}

\* a successful attempt restarts the cooldown
CooldownRestarted ==
    /\ MayStrike(titan)
    /\ titan'.attack_cooldown \in {AttackInterval(titan), GRAB_COOLDOWN}

\* C14 (as stated): perform_attack and perform_grab succeed only when
\* attack_cooldown <= 0 and the titan is not Stunned, set the cooldown to
\* 2/attack_frequency s and 3.0 s, a refused attempt changes nothing, and the
\* cooldown is changed by nothing but a successful attempt and the dt of
\* update calls.
C14_CooldownOnlyRunsInUpdate ==
    /\ []AttemptsAreGated
    /\ [][titan'.attack_cooldown # titan.attack_cooldown =>
            CooldownRunsInUpdate \/ CooldownRestarted]_vars

\* C14 (amended): the same, with reset() as the one other operation that
\* changes the cooldown: it clears it.
C14_CooldownRunsInUpdateOrIsReset ==
    /\ []AttemptsAreGated
    /\ [][titan'.attack_cooldown # titan.attack_cooldown =>
            \/ CooldownRunsInUpdate
            \/ CooldownRestarted
            \/ titan' = TitanAI_reset(titan) /\ titan'.attack_cooldown = 0]_vars

\* a grab has just succeeded: the 3 s cooldown runs and a second attempt is
\* refused
C14_Witness ==
    /\ titan.current_state = "grabbing"
    /\ titan.attack_cooldown = GRAB_COOLDOWN
    /\ ~perform_attack(titan).success

\* ================================================= ResourceSystem on its own
\* amounts handed to consume_gas and consume_blade_durability: negative,
\* nothing, a boost, an attack, a large share, more than the maximum
ConsumeAmounts == {0 - 5, 0, 5, 10, 35, 150}

\* ResourceState values handed to set_state: below the ranges, above them,
\* and inside
ResourceStates ==
    {[gas_level |-> 0 - 20, blade_count |-> 0 - 1, blade_durability |-> 0 - 5],
     [gas_level |-> 150, blade_count |-> 12, blade_durability |-> 130],
     [gas_level |-> 40, blade_count |-> 3, blade_durability |-> 55]}

InitResource ==
    /\ now = ClockStart
    /\ cs = CombatSystem(BASE_ATTACK_DAMAGE)
    /\ hb = TitanHitbox(1, HitboxPosition, NapeCenter, NapeRadius, 1000)
    /\ ret = NoRet
    /\ titan = DefaultTitan
    /\ pl = Player
    /\ frames = 0
    /\ calls = 0
    /\ rs = ResourceSystem
    /\ odm = ODMSystem
    /\ titans = <<>>
    /\ gm = GameManager

ResourceConsumeGas ==
    /\ \E amount \in ConsumeAmounts :
         LET r == consume_gas(rs, amount)
         IN rs' = r.rs /\ ret' = Returned("consume_gas", r.ok)
    /\ UNCHANGED <<now, cs, hb, titan, pl, frames, calls, odm, titans, gm>>

ResourceRefillGas ==
    /\ rs' = ResourceSystem_refill_gas(rs)
    /\ ret' = NoRet
    /\ UNCHANGED <<now, cs, hb, titan, pl, frames, calls, odm, titans, gm>>

ResourceConsumeBladeDurability ==
    /\ \E amount \in ConsumeAmounts :
         LET r == consume_blade_durability(rs, amount)
         IN rs' = r.rs /\ ret' = Returned("consume_blade_durability", r.ok)
    /\ UNCHANGED <<now, cs, hb, titan, pl, frames, calls, odm, titans, gm>>

ResourceSwitchBlade ==
    /\ LET r == ResourceSystem_switch_blade(rs)
       IN rs' = r.rs /\ ret' = Returned("switch_blade", r.ok)
    /\ UNCHANGED <<now, cs, hb, titan, pl, frames, calls, odm, titans, gm>>

ResourceRefillBlades ==
    /\ rs' = ResourceSystem_refill_blades(rs)
    /\ ret' = NoRet
    /\ UNCHANGED <<now, cs, hb, titan, pl, frames, calls, odm, titans, gm>>

ResourceInteractWithSupplyStation ==
    /\ rs' = ResourceSystem_interact_with_supply_station(rs)
    /\ ret' = NoRet
    /\ UNCHANGED <<now, cs, hb, titan, pl, frames, calls, odm, titans, gm>>

ResourceSetState ==
    /\ \E state \in ResourceStates : rs' = ResourceSystem_set_state(rs, state)
    /\ ret' = NoRet
    /\ UNCHANGED <<now, cs, hb, titan, pl, frames, calls, odm, titans, gm>>

NextResource ==
    \/ ResourceConsumeGas
    \/ ResourceRefillGas
    \/ ResourceConsumeBladeDurability
    \/ ResourceSwitchBlade
    \/ ResourceRefillBlades
    \/ ResourceInteractWithSupplyStation
    \/ ResourceSetState

SpecResource == InitResource /\ [][NextResource]_vars

\* ---------------------------------------------------- ResourceSystem claims
InRanges(r) ==
    /\ 0 <= r.gas_level /\ r.gas_level <= MAX_GAS
    /\ 0 <= r.blade_count /\ r.blade_count <= MAX_BLADES
    /\ 0 <= r.blade_durability /\ r.blade_durability <= MAX_BLADE_DURABILITY

\* C15: after any sequence of consume_gas, refill_gas,
\* consume_blade_durability, switch_blade, refill_blades,
\* interact_with_supply_station and set_state, gas, blade count and blade
\* durability lie within [0, max], and both percentages within [0, 1].
C15_ResourceRanges ==
    /\ InRanges(rs)
    /\ 0 <= get_gas_percentage(rs) /\ get_gas_percentage(rs) <= 100
    /\ 0 <= get_blade_durability_percentage(rs)
    /\ get_blade_durability_percentage(rs) <= 100

\* after a blade switch, the new blade and the gas have both been used up to
\* exactly nothing, the last of the gas by a consume_gas that succeeded
C15_Witness ==
    /\ rs.blade_count = MAX_BLADES - 1
    /\ rs.blade_durability = 0
    /\ rs.gas_level = 0
    /\ ret.op = "consume_gas" /\ ret.ok

\* C16: consume_gas(amount) and consume_blade_durability(amount) return true
\* exactly when 0 <= amount <= the current level and then take exactly amount
\* off that level; for a negative or insufficient amount they return false
\* and leave gas, blade count and durability as they were.
C16_ConsumeAllOrNothing ==
    \A amount \in ConsumeAmounts :
      /\ LET r == consume_gas(rs, amount)
         IN /\ r.ok <=> (0 <= amount /\ amount <= rs.gas_level)
            /\ r.rs = IF r.ok THEN [rs EXCEPT !.gas_level = rs.gas_level - amount]
                      ELSE rs
      /\ LET r == consume_blade_durability(rs, amount)
         IN /\ r.ok <=> (0 <= amount /\ amount <= rs.blade_durability)
            /\ r.rs = IF r.ok
                      THEN [rs EXCEPT !.blade_durability = rs.blade_durability - amount]
                      ELSE rs

\* with 5 left of each, a consume_blade_durability has just been refused
C16_Witness ==
    /\ ret.op = "consume_blade_durability" /\ ~ret.ok
    /\ rs.blade_durability = 5
    /\ rs.gas_level = 5


\* ================================================= ODMSystem on its own
\* An ODMSystem driven directly, beside a Player whose boost draws on its
\* ResourceSystem.
\* surfaces handed to set_surfaces: one exactly at hook range and off to
\* the side, a nearer one that is not valid, one out of range overhead,
\* one 30 m overhead
ODMSurfaces ==
    <<Surface(Vec3(600, 800, 0), TRUE), Surface(Vec3(0, 400, 0), FALSE),
      Surface(Vec3(0, 1200, 0), TRUE), Surface(Vec3(0, 600, 0), TRUE)>>

\* a level with a surface exactly where set_position can put the system
CoincidentSurfaces ==
    <<Surface(Vec3(0, 600, 0), TRUE), Surface(Vec3(0, 300, 0), TRUE)>>

SurfaceLists == {<<>>, ODMSurfaces, CoincidentSurfaces}

\* aims: up, sideways, down, and no direction at all
AimDirections == {Vec3(0, 1, 0), Vec3(1, 0, 0), Vec3(0, 0 - 1, 0), ZeroVec}

\* the origin, 15 m up, and 1 m below the origin (beyond the length of a rope
\* fired from the origin)
ODMPositions == {ZeroVec, Vec3(0, 300, 0), Vec3(0, 0 - 20, 0)}

\* dictionaries handed to set_state: gas below the boost cost, gas equal to
\* it, a full dictionary with gas above the maximum, and one that restores
\* only a velocity of 30 m/s upward
ODMSnapshots ==
    {[position |-> <<>>, velocity |-> <<>>, gas_level |-> <<3>>],
     [position |-> <<>>, velocity |-> <<>>, gas_level |-> <<BOOST_COST>>],
     [position |-> <<Vec3(0, 300, 0)>>, velocity |-> <<Vec3(0, 100, 0)>>,
      gas_level |-> <<150>>],
     [position |-> <<>>, velocity |-> <<Vec3(0, 300, 0)>>, gas_level |-> <<>>]}

\* the swing physics is stepped only while the system is within this
\* distance of the origin on every axis and below this speed on every axis
MaxReach == 2000
MaxSpeed == 1000

InArena(o) ==
    \A i \in 1..3 : Abs(o.position[i]) <= MaxReach /\ Abs(o.velocity[i]) <= MaxSpeed

InitODM ==
    /\ now = ClockStart
    /\ cs = CombatSystem(BASE_ATTACK_DAMAGE)
    /\ hb = TitanHitbox(1, HitboxPosition, NapeCenter, NapeRadius, 1000)
    /\ ret = NoRet
    /\ titan = DefaultTitan
    /\ pl = Player
    /\ frames = 0
    /\ calls = 0
    /\ rs = ResourceSystem
    /\ odm = ODMSystem
    /\ titans = <<>>
    /\ gm = GameManager

ODMSetSurfaces ==
    /\ calls < MaxCalls
    /\ calls' = calls + 1
    /\ \E surfaces \in SurfaceLists : odm' = ODM_set_surfaces(odm, surfaces)
    /\ ret' = Returned("set_surfaces", TRUE)
    /\ UNCHANGED <<now, cs, hb, titan, pl, frames, rs, titans, gm>>

ODMClearSurfaces ==
    /\ calls < MaxCalls
    /\ calls' = calls + 1
    /\ odm' = ODM_clear_surfaces(odm)
    /\ ret' = Returned("clear_surfaces", TRUE)
    /\ UNCHANGED <<now, cs, hb, titan, pl, frames, rs, titans, gm>>

ODMSetPosition ==
    /\ calls < MaxCalls
    /\ calls' = calls + 1
    /\ \E value \in ODMPositions : odm' = ODM_set_position(odm, value)
    /\ ret' = Returned("position", TRUE)
    /\ UNCHANGED <<now, cs, hb, titan, pl, frames, rs, titans, gm>>

ODMFireHook ==
    /\ calls < MaxCalls
    /\ calls' = calls + 1
    /\ \E direction \in AimDirections, side \in HookSides :
         LET r == ODM_fire_hook(odm, direction, side)
         IN odm' = r.odm /\ ret' = Returned("fire_hook", r.ok)
    /\ UNCHANGED <<now, cs, hb, titan, pl, frames, rs, titans, gm>>

ODMReleaseHook ==
    /\ calls < MaxCalls
    /\ calls' = calls + 1
    /\ \E side \in HookSides : odm' = ODM_release_hook(odm, side)
    /\ ret' = Returned("release_hook", TRUE)
    /\ UNCHANGED <<now, cs, hb, titan, pl, frames, rs, titans, gm>>

ODMReleaseAllHooks ==
    /\ calls < MaxCalls
    /\ calls' = calls + 1
    /\ odm' = ODM_release_all_hooks(odm)
    /\ ret' = Returned("release_all_hooks", TRUE)
    /\ UNCHANGED <<now, cs, hb, titan, pl, frames, rs, titans, gm>>

ODMUpdateSwingPhysics ==
    /\ calls < MaxCalls
    /\ InArena(odm)
    /\ calls' = calls + 1
    /\ \E dt \in FrameTimes : odm' = update_swing_physics(odm, dt)
    /\ ret' = Returned("update_swing_physics", TRUE)
    /\ UNCHANGED <<now, cs, hb, titan, pl, frames, rs, titans, gm>>

ODMActivateBoost ==
    /\ calls < MaxCalls
    /\ calls' = calls + 1
    /\ LET r == ODM_activate_boost(odm)
       IN odm' = r.odm /\ ret' = Returned("activate_boost", r.ok)
    /\ UNCHANGED <<now, cs, hb, titan, pl, frames, rs, titans, gm>>

ODMRefillGas ==
    /\ calls < MaxCalls
    /\ calls' = calls + 1
    /\ odm' = ODM_refill_gas(odm)
    /\ ret' = Returned("refill_gas", TRUE)
    /\ UNCHANGED <<now, cs, hb, titan, pl, frames, rs, titans, gm>>

ODMReset ==
    /\ calls < MaxCalls
    /\ calls' = calls + 1
    /\ odm' = ODM_reset(odm)
    /\ ret' = Returned("reset", TRUE)
    /\ UNCHANGED <<now, cs, hb, titan, pl, frames, rs, titans, gm>>

ODMSetState ==
    /\ calls < MaxCalls
    /\ calls' = calls + 1
    /\ \E state \in ODMSnapshots : odm' = ODM_set_state(odm, state)
    /\ ret' = Returned("set_state", TRUE)
    /\ UNCHANGED <<now, cs, hb, titan, pl, frames, rs, titans, gm>>

NextODM ==
    \/ ODMSetSurfaces
    \/ ODMClearSurfaces
    \/ ODMSetPosition
    \/ ODMFireHook
    \/ ODMReleaseHook
    \/ ODMReleaseAllHooks
    \/ ODMUpdateSwingPhysics
    \/ ODMActivateBoost
    \/ ODMRefillGas
    \/ ODMReset
    \/ ODMSetState
    \/ PlayerActivateBoost
    \/ PlayerSetState

SpecODM == InitODM /\ [][NextODM]_vars

\* C17: in every reachable state of the ODMSystem in which the surface list is
\* empty, fire_hook returns false for either side and any aim direction, and
\* afterwards neither the left nor the right hook is attached.
C17_EmptySurfacesLeaveHooksDetached ==
    odm.surfaces = <<>> =>
        \A direction \in AimDirections, side \in HookSides :
            LET r == ODM_fire_hook(odm, direction, side)
            IN /\ ~r.ok
               /\ ~r.odm.left_hook.is_attached
               /\ ~r.odm.right_hook.is_attached


\* the claim's test of one surface: valid, within hookRange of the position,
\* and the normalized direction to it has a dot product of at least 0.5 with
\* the normalized aim (a vector of length 0 normalizes to the zero vector)
Eligible(o, direction, surface) ==
    LET to_surface == VSub(surface.position, o.position)
        d == Dot(direction, to_surface)
    IN /\ surface.is_valid
       /\ MagSq(to_surface) <= HOOK_RANGE * HOOK_RANGE
       /\ d > 0
       /\ 4 * d * d >= MagSq(direction) * MagSq(to_surface)

EligibleSurfaces(o, direction) ==
    {i \in 1..Len(o.surfaces) : Eligible(o, direction, o.surfaces[i])}

DistanceTo(o, surface) == magnitude(VSub(surface.position, o.position))

\* C18: in every reachable state, for either side and any aim, fire_hook
\* returns true exactly when some surface is valid, within hookRange and has a
\* normalized dot product of at least 0.5 with the aim; it then attaches the
\* named side to a nearest such surface with that surface's position as attach
\* point, its distance as rope length and tension 0; otherwise it returns
\* false and the named side is not attached.
C18_FireHookAttachesNearestEligible ==
    \A direction \in AimDirections, side \in HookSides :
        LET r == ODM_fire_hook(odm, direction, side)
            hook == get_hook(r.odm, side)
            eligible == EligibleSurfaces(odm, direction)
        IN /\ r.ok <=> eligible # {}
           /\ r.ok =>
                /\ hook.is_attached
                /\ hook.tension = 0
                /\ \E i \in eligible :
                     /\ \A j \in eligible :
                          DistanceTo(odm, odm.surfaces[i]) <= DistanceTo(odm, odm.surfaces[j])
                     /\ hook.attach_point = odm.surfaces[i].position
                     /\ hook.rope_length = DistanceTo(odm, odm.surfaces[i])
           /\ ~r.ok => ~hook.is_attached


\* C19: in every reachable state the gas of the ODMSystem and of the Player's
\* ResourceSystem is not negative; activate_boost with gas below boostCost
\* returns false and leaves the whole system (velocity, position, gas level,
\* both hooks) as it was; a boost that succeeds had at least boostCost of gas
\* and subtracts exactly boostCost. The same holds for Player.activate_boost
\* with the gas of the player's ResourceSystem.
C19_BoostNeedsGas ==
    /\ odm.gas_level >= 0
    /\ pl.resource.gas_level >= 0
    /\ LET r == ODM_activate_boost(odm)
       IN /\ odm.gas_level < BOOST_COST => ~r.ok /\ r.odm = odm
          /\ r.ok => /\ odm.gas_level >= BOOST_COST
                     /\ r.odm.gas_level = odm.gas_level - BOOST_COST
                     /\ r.odm.gas_level >= 0
    /\ LET q == Player_activate_boost(pl)
       IN /\ pl.resource.gas_level < BOOST_COST => ~q.ok /\ q.pl = pl
          /\ q.ok => /\ pl.resource.gas_level >= BOOST_COST
                     /\ q.pl.resource.gas_level = pl.resource.gas_level - BOOST_COST
                     /\ q.pl.resource.gas_level >= 0

\* a boost of the ODMSystem was just refused with 3 units of gas left,
\* beside a player whose own boost has brought the gas down to 3
C19_Witness ==
    /\ ret.op = "activate_boost"
    /\ ~ret.ok
    /\ odm.gas_level = 3
    /\ pl.resource.gas_level = 3


\* -------------------------------------------------- CombatSystem body hits
\* baseDamage x 0.3, x 1.5 only above the speed threshold, in tenths
BodyDamage(attack_speed) ==
    IF attack_speed > STYLE_MULTIPLIER_SPEED_THRESHOLD
    THEN (BASE_ATTACK_DAMAGE * 3 * 15) \div 100
    ELSE (BASE_ATTACK_DAMAGE * 3) \div 10

DurabilityInRange(c) ==
    0 <= c.blade_durability /\ c.blade_durability <= MAX_BLADE_DURABILITY

\* C20: blade durability is within [0, maxDurability] in every reachable
\* state; a perform_slash on a living target with durability > 0 and a hit
\* point outside the nape sphere returns hit, not critical, part 'body' and
\* damage baseDamage x 0.3 (x 1.5 only when the attack speed exceeds 10), takes
\* exactly that damage from the target's health, and takes the per-attack cost
\* from the durability, stopping at 0; a nape hit costs the same durability.
C20_BodyHitDamageAndCost ==
    /\ DurabilityInRange(cs)
    /\ \A hit_point \in HitPoints \ {<<>>}, attack_speed \in AttackSpeeds :
         LET r == CombatSystem_perform_slash(cs, hb, TRUE, hit_point, attack_speed, now)
             cost == Max(cs.blade_durability - DURABILITY_COST_PER_ATTACK, 0)
         IN (cs.blade_durability > 0 /\ hb.is_alive) =>
              /\ r.cs.blade_durability = cost
              /\ DurabilityInRange(r.cs)
              /\ ~InNape(hb, hit_point) =>
                   /\ r.res.hit
                   /\ ~r.res.is_critical
                   /\ r.res.target_part = "body"
                   /\ r.res.damage = BodyDamage(attack_speed)
                   /\ r.hb.health = hb.health - BodyDamage(attack_speed)


\* C21: every perform_slash on a living target with durability > 0 whose hit
\* point is outside the nape sphere returns killed = false and leaves the
\* target alive, whatever health the target has left.
C21_BodyHitNeverKills ==
    \A hit_point \in HitPoints \ {<<>>}, attack_speed \in AttackSpeeds :
        LET r == CombatSystem_perform_slash(cs, hb, TRUE, hit_point, attack_speed, now)
        IN (cs.blade_durability > 0 /\ hb.is_alive /\ ~InNape(hb, hit_point)) =>
             ~r.res.killed /\ r.hb.is_alive


\* ------------------------------------------------------ capture and QTE
\* C22: in every reachable state, on_grabbed on a living player leaves it
\* Grabbed with both hooks detached, zero velocity and a QTE that is active,
\* has elapsed 0, a time limit of 2.0 s, neither succeeded nor failed, and a
\* required input among the configured keys; on a dead player it changes
\* nothing.
C22_OnGrabbedStartsQte ==
    \A grabber \in Grabbers, required_key \in QTE_KEYS :
        LET q == Player_on_grabbed(pl, grabber, required_key)
        IN /\ pl.is_alive =>
                /\ q.current_state = "grabbed"
                /\ ~q.odm.left_hook.is_attached
                /\ ~q.odm.right_hook.is_attached
                /\ q.velocity = ZeroVec
                /\ q.current_qte # <<>>
                /\ q.current_qte[1].elapsed_time = 0
                /\ q.current_qte[1].time_limit = QTE_TIME_LIMIT
                /\ ~q.current_qte[1].success
                /\ ~q.current_qte[1].failed
                /\ QTE_is_active(q.current_qte[1])
                /\ q.current_qte[1].required_key \in {"space", "e", "q"}
           /\ ~pl.is_alive => q = pl

\* a player caught off the ground: captured with a fresh QTE, hooks gone and
\* no velocity left
C22_Witness ==
    /\ pl.is_alive
    /\ pl.current_state = "grabbed"
    /\ ~pl.is_grounded
    /\ pl.position[2] > 0
    /\ pl.current_qte # <<>>
    /\ pl.current_qte[1].elapsed_time = 0
    /\ ~is_any_hook_attached(pl.odm)
    /\ pl.velocity = ZeroVec


\* keys pressed during a QTE: the configured ones, their capitals, and a key
\* that is not configured
PressedKeys == QTE_KEYS \cup TypedKeys \cup {"Q", "SPACE"}

EscapeVelocity == Vec3(0, 50, 0 - 30)

\* what C23 says of one key press, for a given notion of "key matches"
QteInputContract(key, matches) ==
    LET r == Player_process_qte_input(pl, key)
    IN /\ r.ok => /\ pl.current_qte # <<>>
                  /\ QTE_is_active(pl.current_qte[1])
                  /\ matches
                  /\ r.pl.velocity = EscapeVelocity
                  /\ r.pl.current_state = "airborne"
                  /\ r.pl.current_qte = <<>>
       /\ (pl.current_qte # <<>> /\ ~matches) => ~r.ok /\ r.pl = pl
       /\ ~r.ok => r.pl = pl

\* C23 as stated: process_qte_input(key) returns true only if a QTE exists, is
\* active and key equals the required input exactly; success gives the escape
\* velocity (0, 5, -3), state Airborne and no QTE; a non-matching key returns
\* false and changes nothing.
C23_QteInputExactMatch ==
    \A key \in PressedKeys :
        QteInputContract(key, pl.current_qte # <<>> /\ key = pl.current_qte[1].required_key)

\* C23, amended: the same with the key compared to the required input
\* without regard to letter case.
C23_QteInputMatchIgnoringCase ==
    \A key \in PressedKeys :
        QteInputContract(key, pl.current_qte # <<>>
                              /\ Lower(key) = Lower(pl.current_qte[1].required_key))

\* a player that has just escaped: airborne with the escape velocity and no QTE
C23_Witness ==
    /\ pl.is_alive
    /\ pl.current_state = "airborne"
    /\ pl.velocity = EscapeVelocity
    /\ pl.current_qte = <<>>
    /\ pl.grabbing_titan = <<>>


\* ------------------------------------------------ a capture left to run out
\* frame times of the updates of a captured player: 0.5 s and 1.5 s, so that
\* the time limit is reached exactly and overshot
CaptureFrameTimes == {1, 3}

Captured(p) == p.current_state = "grabbed"

\* update(dt) of a captured player; the game loop goes on calling it whatever
\* else is called
CapturedUpdate ==
    /\ Captured(pl)
    /\ \E dt \in CaptureFrameTimes :
         LET r == Player_update(pl, cs, dt, now)
         IN pl' = r.pl /\ cs' = r.cs
    /\ ret' = Returned("update", TRUE)
    /\ UNCHANGED <<now, hb, titan, frames, calls, rs, odm, titans, gm>>

NextCapture ==
    \/ CapturedUpdate
    \/ PlayerUpdate
    \/ PlayerOnGrabbed
    \/ PlayerProcessQteInput
    \/ PlayerTakeDamage
    \/ PlayerHeal
    \/ PlayerFireHook
    \/ PlayerSetSurfaces
    \/ PlayerReleaseAllHooks
    \/ PlayerRespawn

SpecCapture == InitPlayer /\ [][NextCapture]_vars /\ WF_vars(CapturedUpdate)

\* 1.5 x the grabbing titan's attack damage, 30.0 without a titan
GrabDamageOf(p) ==
    IF p.grabbing_titan = <<>> THEN GRAB_DAMAGE ELSE (p.grabbing_titan[1] * 3) \div 2

\* what one update does to a captured player: before the time limit only the
\* QTE's clock moves; at the limit the damage is taken once, the QTE is gone
\* and the player is Airborne, or Dead when the damage was lethal
CaptureRunsOut ==
    Captured(pl) =>
        /\ pl.is_alive
        /\ pl.current_qte # <<>>
        /\ QTE_is_active(pl.current_qte[1])
        /\ pl.current_qte[1].elapsed_time < QTE_TIME_LIMIT
        /\ \A dt \in CaptureFrameTimes \cup FrameTimes :
             LET r == Player_update(pl, cs, dt, now).pl
                 elapsed == pl.current_qte[1].elapsed_time + dt
             IN IF elapsed < QTE_TIME_LIMIT
                THEN r = [pl EXCEPT !.current_qte[1].elapsed_time = elapsed]
                ELSE /\ r.current_qte = <<>>
                     /\ r.health = Max(0, pl.health - GrabDamageOf(pl))
                     /\ IF pl.health > GrabDamageOf(pl)
                        THEN r.is_alive /\ r.current_state = "airborne"
                        ELSE ~r.is_alive /\ r.current_state = "dead"
                     /\ LET again == Player_update(r, cs, dt, now).pl
                        IN again.health = r.health /\ again.current_qte = <<>>

\* C24: a captured player leaves capture on the first update at which the
\* QTE's elapsed time reaches 2.0 s, taking the grab damage once, losing the
\* QTE and becoming Airborne (Dead when it does not survive); and under
\* repeated updates every captured player eventually is captured no more.
C24_CaptureAlwaysEnds ==
    /\ []CaptureRunsOut
    /\ Captured(pl) ~> ~Captured(pl)

\* a player thrown off by a titan after the QTE ran out: the titan's damage
\* taken, no QTE, airborne with the velocity _fail_qte gives
C24_Witness ==
    /\ ret.op = "update"
    /\ pl.is_alive
    /\ pl.current_state = "airborne"
    /\ pl.current_qte = <<>>
    /\ pl.velocity = Vec3(0, 20, 0 - 20)
    /\ pl.health = BASE_HEALTH - GRAB_DAMAGE


\* C25: every update that begins while the player is captured with an
\* unexpired QTE leaves position, is_grounded, the ODMSystem with both hooks
\* and the combat system with its combo count as they were; while the time
\* limit is not reached the velocity is unchanged too and the QTE's elapsed
\* time is all that moves.
C25_CaptureSkipsSimulation ==
    (Captured(pl) /\ pl.current_qte # <<>> /\ QTE_is_active(pl.current_qte[1])) =>
        \A dt \in CaptureFrameTimes \cup FrameTimes :
            LET r == Player_update(pl, cs, dt, now)
                elapsed == pl.current_qte[1].elapsed_time + dt
            IN /\ r.pl.position = pl.position
               /\ r.pl.is_grounded = pl.is_grounded
               /\ r.pl.odm.left_hook = pl.odm.left_hook
               /\ r.pl.odm.right_hook = pl.odm.right_hook
               /\ r.pl.odm.position = pl.odm.position
               /\ r.cs.combo_count = cs.combo_count
               /\ r.cs = cs
               /\ elapsed < QTE_TIME_LIMIT =>
                    /\ r.pl.velocity = pl.velocity
                    /\ r.pl = [pl EXCEPT !.current_qte[1].elapsed_time = elapsed]

\* a player captured off the ground, part of the time limit gone: neither
\* gravity nor the ground has acted on it
C25_Witness ==
    /\ ret.op = "update"
    /\ Captured(pl)
    /\ pl.current_qte # <<>>
    /\ pl.current_qte[1].elapsed_time > 0
    /\ ~pl.is_grounded
    /\ pl.position[2] > 0
    /\ pl.velocity = ZeroVec


\* ================================================ PlayerTitanInteraction
\* The interaction works in the player's units: twentieths of a metre.  A
\* titan of the model stands on the x axis at Vec3(x, 0, 0), x in tenths.
ATTACK_RANGE == 60
ATTACK_ANGLE == 90
NAPE_HIT_BONUS_RANGE == 30
COLLISION_RADIUS == 10

Twentieths(tenths) == 2 * tenths

\* TitanAI.position as the interaction reads it
titan_position(t) == Vec3(Twentieths(t.position), 0, 0)

\* TitanAI.nape_position: position + Vec3(0, height * 0.9, -0.5)
nape_position(t) ==
    VAdd(titan_position(t),
         Vec3(0, (Twentieths(t.data.height) * 9) \div 10, 0 - 10))

\* TitanAI.nape_radius: height * 0.1
nape_radius(t) == Twentieths(t.data.height) \div 10

\* InteractionResult, with the titan_id and hit_nape of its details
InteractionResult(interaction_type, titan_id) ==
    [interaction_type |-> interaction_type, success |-> TRUE,
     damage_dealt |-> 0, damage_received |-> 0, titan_killed |-> FALSE,
     player_grabbed |-> FALSE, titan_id |-> titan_id, hit_nape |-> FALSE]

\* _get_attack_direction: (sin r, 0, cos r) for the rotation r in degrees.
\* The model turns the player by quarter turns only; the binary64 sine and
\* cosine of those leave a residue below 1e-15 where the exact value is 0.
get_attack_direction(p) ==
    CASE p.rotation % 360 = 0 -> Vec3(0, 0, 1)
      [] p.rotation % 360 = 90 -> Vec3(1, 0, 0)
      [] p.rotation % 360 = 180 -> Vec3(0, 0, 0 - 1)
      [] p.rotation % 360 = 270 -> Vec3(0 - 1, 0, 0)

\* _check_attack_hit: <<>> for None, else <<hit point>>.  The half angle of
\* the cone is 45 degrees: angle <= 45 iff dot >= cos 45, that is dot > 0 and
\* 2 dot^2 >= 1, with dot = (to_titan . direction) / distance.
check_attack_hit(player_pos, attack_direction, t) ==
    LET titan_pos == titan_position(t)
        to_titan == VSub(titan_pos, player_pos)
        d2 == MagSq(to_titan)
        half_height == Twentieths(t.data.height) \div 2
        max_range == ATTACK_RANGE + half_height
        along == to_titan[1] * attack_direction[1]
                   + to_titan[3] * attack_direction[3]
        nape_reach == ATTACK_RANGE + NAPE_HIT_BONUS_RANGE
    IN IF d2 > max_range * max_range THEN <<>>
       ELSE IF d2 > 0 /\ ~(along > 0 /\ 2 * along * along >= d2) THEN <<>>
       ELSE IF DistanceSq(player_pos, nape_position(t)) <= nape_reach * nape_reach
            THEN <<nape_position(t)>>
            ELSE <<Vec3(titan_pos[1], titan_pos[2] + half_height, titan_pos[3])>>

\* _create_titan_hitbox: a fresh TitanHitbox with the titan's health
create_titan_hitbox(t) ==
    TitanHitbox(1, titan_position(t),
                Vec3(0, (Twentieths(t.data.height) * 9) \div 10, 0 - 10),
                nape_radius(t), t.health)

\* _check_attack_hit builds the point of a body hit as an odm_system.Vec3,
\* which has no distance_to; the nape point is the titan's own Vec3
is_body_point(player_pos, t) ==
    DistanceSq(player_pos, nape_position(t))
        > (ATTACK_RANGE + NAPE_HIT_BONUS_RANGE) * (ATTACK_RANGE + NAPE_HIT_BONUS_RANGE)

\* perform_slash taking any hit point
slash_never_raises(c, player_pos, t) == FALSE

\* perform_slash with such a point raises AttributeError in check_nape_hit
\* (TitanHitbox.is_point_in_nape calls point.distance_to), after it has worn
\* the combat system's blade and before anything else is written
slash_raises(c, player_pos, t) == attack_enabled(c) /\ is_body_point(player_pos, t)

worn_by_raised_slash(c) ==
    [c EXCEPT !.blade_durability =
         Max(c.blade_durability - DURABILITY_COST_PER_ATTACK, 0)]

\* the titans of the list the loop of perform_attack stops at: alive and hit
StruckIndices(p, ts) ==
    {i \in 1..Len(ts) :
        /\ ts[i].is_alive
        /\ check_attack_hit(p.position, get_attack_direction(p), ts[i]) # <<>>}

FirstOf(S) == CHOOSE i \in S : \A j \in S : i <= j

\* perform_attack on every candidate: the loop without its break
Interaction_perform_attack_on_all(p, c, ts, t) ==
    LET RECURSIVE strike(_, _)
        strike(i, acc) ==
          IF i > Len(ts) \/ acc.raised THEN acc
          ELSE IF i \notin StruckIndices(p, ts) THEN strike(i + 1, acc)
          ELSE IF slash_raises(acc.cs, p.position, ts[i])
          THEN [acc EXCEPT !.cs = worn_by_raised_slash(acc.cs),
                           !.results = <<>>, !.raised = TRUE]
          ELSE
            LET hit_point == check_attack_hit(p.position,
                                 get_attack_direction(p), ts[i])[1]
                a == Player_attack(acc.pl, acc.cs, create_titan_hitbox(ts[i]),
                                   TRUE, hit_point, t)
                td == TitanAI_take_damage(ts[i], a.res.damage, a.res.is_critical)
            IN strike(i + 1,
                 IF ~a.res.hit THEN [acc EXCEPT !.pl = a.pl, !.cs = a.cs]
                 ELSE [pl |-> a.pl, cs |-> a.cs,
                       titans |-> [acc.titans EXCEPT ![i] = td.titan],
                       results |-> Append(acc.results,
                           [InteractionResult("attack", ts[i].data.id)
                              EXCEPT !.damage_dealt = a.res.damage,
                                     !.titan_killed = td.killed,
                                     !.hit_nape = a.res.is_critical]),
                       raised |-> FALSE])
    IN IF ~p.is_alive \/ p.current_state = "grabbed"
          \/ p.resource.blade_durability <= 0
       THEN [pl |-> p, cs |-> c, titans |-> ts, results |-> <<>>,
             raised |-> FALSE]
       ELSE strike(1, [pl |-> p, cs |-> c, titans |-> ts, results |-> <<>>,
                       raised |-> FALSE])

\* perform_attack at wall-clock time t: player, combat system, titans and
\* the list returned, or raised when the AttributeError leaves the call
Interaction_perform_attack(p, c, ts, t) ==
    IF ~p.is_alive \/ p.current_state = "grabbed"
       \/ p.resource.blade_durability <= 0
    THEN [pl |-> p, cs |-> c, titans |-> ts, results |-> <<>>, raised |-> FALSE]
    ELSE IF StruckIndices(p, ts) = {}
    THEN [pl |-> p, cs |-> c, titans |-> ts, results |-> <<>>, raised |-> FALSE]
    ELSE
      LET i == FirstOf(StruckIndices(p, ts))
          hit_point == check_attack_hit(p.position, get_attack_direction(p),
                                        ts[i])[1]
          a == Player_attack(p, c, create_titan_hitbox(ts[i]), TRUE, hit_point, t)
          td == TitanAI_take_damage(ts[i], a.res.damage, a.res.is_critical)
      IN IF slash_raises(c, p.position, ts[i])
         THEN [pl |-> p, cs |-> worn_by_raised_slash(c), titans |-> ts,
               results |-> <<>>, raised |-> TRUE]
         ELSE IF ~a.res.hit
         THEN [pl |-> a.pl, cs |-> a.cs, titans |-> ts, results |-> <<>>,
               raised |-> FALSE]
         ELSE [pl |-> a.pl, cs |-> a.cs,
               titans |-> [ts EXCEPT ![i] = td.titan],
               results |-> <<[InteractionResult("attack", ts[i].data.id)
                                EXCEPT !.damage_dealt = a.res.damage,
                                       !.titan_killed = td.killed,
                                       !.hit_nape = a.res.is_critical]>>,
               raised |-> FALSE]


\* the distance both titan handlers measure: x and z only
HorizontalDistanceSq(a, b) ==
    (a[1] - b[1]) * (a[1] - b[1]) + (a[3] - b[3]) * (a[3] - b[3])

\* attack ranges (tenths) whose binary64 product with 1.2 falls below the
\* exact one: 3.0 * 1.2 = 3.5999999999999996
GrabRangeShortfall == {30}

\* _handle_titan_attack: the player after it, and <<>> for None or <<result>>
handle_titan_attack(p, t, player_pos) ==
    LET range == Twentieths(t.data.attack_range)
    IN IF HorizontalDistanceSq(player_pos, titan_position(t)) > range * range
       THEN [pl |-> p, result |-> <<>>]
       ELSE LET d == Player_take_damage(p, t.data.attack_damage)
            IN [pl |-> d.pl,
                result |-> <<[InteractionResult("titan_attack", t.data.id)
                                EXCEPT !.damage_received = t.data.attack_damage]>>]

\* _handle_titan_grab; required_key is the draw on_grabbed makes
handle_titan_grab(p, t, player_pos, required_key) ==
    LET grab_range == (Twentieths(t.data.attack_range) * 12) \div 10
        d2 == HorizontalDistanceSq(player_pos, titan_position(t))
    IN IF \/ d2 > grab_range * grab_range
          \/ d2 = grab_range * grab_range
               /\ t.data.attack_range \in GrabRangeShortfall
       THEN [pl |-> p, result |-> <<>>]
       ELSE [pl |-> Player_on_grabbed(p, <<t.data.attack_damage>>, required_key),
             result |-> <<[InteractionResult("grab", t.data.id)
                             EXCEPT !.player_grabbed = TRUE]>>]

\* check_titan_attacks that ends a titan's attack or grab once it has landed
check_titan_attacks_ending_the_attack(p, ts, required_keys) ==
    LET RECURSIVE each(_, _)
        each(i, acc) ==
          IF i > Len(ts) THEN acc
          ELSE IF ~ts[i].is_alive THEN each(i + 1, acc)
          ELSE
            LET r == IF ts[i].current_state = "attacking"
                     THEN handle_titan_attack(acc.pl, ts[i], p.position)
                     ELSE IF ts[i].current_state = "grabbing"
                     THEN handle_titan_grab(acc.pl, ts[i], p.position,
                                            required_keys[i])
                     ELSE [pl |-> acc.pl, result |-> <<>>]
            IN each(i + 1,
                    [pl |-> r.pl,
                     titans |-> IF r.result = <<>> THEN acc.titans
                                ELSE [acc.titans EXCEPT
                                        ![i] = change_state(ts[i], "pursuing")],
                     results |-> acc.results \o r.result])
    IN IF ~p.is_alive \/ p.current_state = "grabbed"
       THEN [pl |-> p, titans |-> ts, results |-> <<>>]
       ELSE each(1, [pl |-> p, titans |-> ts, results |-> <<>>])

\* check_titan_attacks: the player, the titans and the list returned.
\* required_keys[i] is the draw a grab by titan i makes.  The player's
\* position is read once, before the loop; the titans are only read.
check_titan_attacks(p, ts, required_keys) ==
    LET RECURSIVE each(_, _)
        each(i, acc) ==
          IF i > Len(ts) THEN acc
          ELSE IF ~ts[i].is_alive THEN each(i + 1, acc)
          ELSE
            LET r == IF ts[i].current_state = "attacking"
                     THEN handle_titan_attack(acc.pl, ts[i], p.position)
                     ELSE IF ts[i].current_state = "grabbing"
                     THEN handle_titan_grab(acc.pl, ts[i], p.position,
                                            required_keys[i])
                     ELSE [pl |-> acc.pl, result |-> <<>>]
            IN each(i + 1, [pl |-> r.pl, titans |-> acc.titans,
                            results |-> acc.results \o r.result])
    IN IF ~p.is_alive \/ p.current_state = "grabbed"
       THEN [pl |-> p, titans |-> ts, results |-> <<>>]
       ELSE each(1, [pl |-> p, titans |-> ts, results |-> <<>>])

\* Player.check_collision_with_titan: two cylinders seen from above
check_collision_with_titan(p, titan_pos, titan_radius) ==
    HorizontalDistanceSq(p.position, titan_pos)
        < (COLLISION_RADIUS + titan_radius) * (COLLISION_RADIUS + titan_radius)

\* check_collisions: the list returned; nothing is changed
check_collisions(p, ts) ==
    IF ~p.is_alive THEN <<>>
    ELSE LET RECURSIVE each(_)
             each(i) ==
               IF i > Len(ts) THEN <<>>
               ELSE IF ts[i].is_alive
                       /\ check_collision_with_titan(p, titan_position(ts[i]),
                              (Twentieths(ts[i].data.height) * 3) \div 10)
                    THEN <<InteractionResult("collision", ts[i].data.id)>>
                             \o each(i + 1)
                    ELSE each(i + 1)
         IN each(1)

\* update(dt): the player and the titans after it and both lists of the
\* dictionary returned
Interaction_update(p, ts, required_keys) ==
    IF ~p.is_alive
    THEN [pl |-> p, titans |-> ts, titan_attacks |-> <<>>, collisions |-> <<>>]
    ELSE LET a == check_titan_attacks(p, ts, required_keys)
         IN [pl |-> a.pl, titans |-> a.titans, titan_attacks |-> a.results,
             collisions |-> check_collisions(a.pl, a.titans)]


\* ------------------------------------------- the interaction, step by step
Rotations == {0, 90}

\* the titans handed to set_active_titans: one that has begun an attack 2 m
\* ahead on the x axis; one attacking from 4.4 m; one that has begun a grab
\* from 3.5 m; a dead one; an armoured 15 m titan; an idle one 2 m behind
InteractionTitans ==
    {perform_attack(TitanAI(normal_3m, standard, 20)).titan,
     perform_attack(TitanAI(normal_3m, standard, 44)).titan,
     perform_grab(TitanAI(normal_3m, standard, 35), FALSE).titan,
     TitanAI_take_damage(TitanAI(normal_3m, standard, 20), 5000, TRUE).titan,
     TitanAI(armored_15m, cautious, 44),
     TitanAI(normal_3m, standard, 0 - 20)}

\* no titan, one titan, or two different titans in either order
TitanLists ==
    {<<>>} \cup {<<a>> : a \in InteractionTitans}
           \cup ({<<a, b>> : a, b \in InteractionTitans}
                    \ {<<a, a>> : a \in InteractionTitans})

\* the draws of random.choice(QTE_KEYS), one for each titan of the list
QteDraws(ts) == [1..Len(ts) -> QTE_KEYS]

InteractionReturned(op, results) ==
    [op |-> op, res |-> results, ok |-> results # <<>>, raised |-> FALSE]

InitInteraction ==
    /\ now = ClockStart
    /\ cs = CombatSystem(BASE_ATTACK_DAMAGE)
    /\ hb = TitanHitbox(1, HitboxPosition, NapeCenter, NapeRadius, 1000)
    /\ ret = NoRet
    /\ titan = DefaultTitan
    /\ pl = Player
    /\ frames = 0
    /\ calls = 0
    /\ rs = ResourceSystem
    /\ odm = ODMSystem
    /\ titans = <<>>
    /\ gm = GameManager

InteractionSetActiveTitans ==
    /\ calls < MaxCalls
    /\ calls' = calls + 1
    /\ \E ts \in TitanLists : titans' = ts
    /\ ret' = NoRet
    /\ UNCHANGED <<now, cs, hb, titan, pl, frames, rs, odm, gm>>

PlayerSetRotation ==
    /\ calls < MaxCalls
    /\ calls' = calls + 1
    /\ \E value \in Rotations : pl' = [pl EXCEPT !.rotation = value]
    /\ ret' = NoRet
    /\ UNCHANGED <<now, cs, hb, titan, frames, rs, odm, titans, gm>>

InteractionPerformAttack ==
    /\ calls < MaxCalls
    /\ calls' = calls + 1
    /\ LET r == Interaction_perform_attack(pl, cs, titans, now)
       IN /\ pl' = r.pl
          /\ cs' = r.cs
          /\ titans' = r.titans
          /\ ret' = [InteractionReturned("perform_attack", r.results)
                       EXCEPT !.raised = r.raised]
    /\ UNCHANGED <<now, hb, titan, frames, rs, odm, gm>>

InteractionCheckTitanAttacks ==
    /\ calls < MaxCalls
    /\ calls' = calls + 1
    /\ \E required_keys \in QteDraws(titans) :
         LET r == check_titan_attacks(pl, titans, required_keys)
         IN /\ pl' = r.pl
            /\ titans' = r.titans
            /\ ret' = InteractionReturned("check_titan_attacks", r.results)
    /\ UNCHANGED <<now, cs, hb, titan, frames, rs, odm, gm>>

InteractionCheckCollisions ==
    /\ calls < MaxCalls
    /\ calls' = calls + 1
    /\ ret' = InteractionReturned("check_collisions", check_collisions(pl, titans))
    /\ UNCHANGED <<now, cs, hb, titan, pl, frames, rs, odm, titans, gm>>

InteractionUpdate ==
    /\ calls < MaxCalls
    /\ calls' = calls + 1
    /\ \E required_keys \in QteDraws(titans) :
         LET r == Interaction_update(pl, titans, required_keys)
         IN /\ pl' = r.pl
            /\ titans' = r.titans
            /\ ret' = InteractionReturned("interaction_update",
                                          r.titan_attacks \o r.collisions)
    /\ UNCHANGED <<now, cs, hb, titan, frames, rs, odm, gm>>

NextInteraction ==
    \/ InteractionSetActiveTitans
    \/ PlayerSetRotation
    \/ InteractionPerformAttack
    \/ InteractionCheckTitanAttacks
    \/ InteractionCheckCollisions
    \/ InteractionUpdate
    \/ PlayerRespawn
    \/ PlayerTakeDamage
    \/ PlayerSetState

SpecInteraction == InitInteraction /\ [][NextInteraction]_vars


\* ------------------------------------------------------------------- C26
\* the test the attack makes of one titan: no farther than the attack range
\* plus half the titan's height, and inside the 90 degree cone about the
\* direction the player faces
PassesRangeAndCone(p, t) ==
    LET to_titan == VSub(titan_position(t), p.position)
        reach == ATTACK_RANGE + Twentieths(t.data.height) \div 2
        along == Dot(to_titan, get_attack_direction(p))
    IN /\ MagSq(to_titan) <= reach * reach
       /\ \/ MagSq(to_titan) = 0
          \/ along > 0 /\ 2 * along * along >= MagSq(to_titan)

Candidates(p, ts) ==
    {i \in 1..Len(ts) : ts[i].is_alive /\ PassesRangeAndCone(p, ts[i])}

AttackRefused(p) ==
    ~p.is_alive \/ p.current_state = "grabbed" \/ p.resource.blade_durability <= 0

\* C26: perform_attack strikes at most one titan, the first living one of
\* the list that passes the range and cone test: it returns at most one
\* result, that result names that titan, and no other titan of the list is
\* changed; a dead or captured player, or one whose blade is worn out,
\* strikes nothing and changes nothing.
C26_SingleTargetAttack ==
    \A ts \in TitanLists :
      LET r == Interaction_perform_attack(pl, cs, ts, now)
          changed == {i \in 1..Len(ts) : r.titans[i] # ts[i]}
          first == FirstOf(Candidates(pl, ts))
      IN /\ Len(r.titans) = Len(ts)
         /\ Len(r.results) <= 1
         /\ Candidates(pl, ts) = {} => changed = {} /\ r.results = <<>>
         /\ Candidates(pl, ts) # {} =>
              /\ changed \subseteq {first}
              /\ r.results # <<>> =>
                   /\ r.results[1].titan_id = ts[first].data.id
                   /\ r.titans[first] =
                        TitanAI_take_damage(ts[first], r.results[1].damage_dealt,
                                            r.results[1].hit_nape).titan
         /\ AttackRefused(pl) =>
              r = [pl |-> pl, cs |-> cs, titans |-> ts, results |-> <<>>,
                   raised |-> FALSE]

\* an attack has killed the first of two titans it could have struck and left
\* the second as it was
C26_Witness ==
    /\ ret.op = "perform_attack"
    /\ Len(ret.res) = 1
    /\ ret.res[1].titan_killed
    /\ Len(titans) = 2
    /\ ~titans[1].is_alive
    /\ titans[2] \in InteractionTitans
    /\ titans[2].is_alive
    /\ PassesRangeAndCone(pl, titans[2])


\* ------------------------------------------------------------------- C27
\* titan i of the list may hit the player: alive, Attacking and no farther
\* from the player than its attack range
MayHit(p, t, Dist2(_, _)) ==
    /\ t.is_alive
    /\ t.current_state = "attacking"
    /\ Dist2(p.position, titan_position(t))
         <= Twentieths(t.data.attack_range) * Twentieths(t.data.attack_range)

\* it may capture the player: alive, Grabbing and within 1.2 x attack range
MayCapture(p, t, Dist2(_, _)) ==
    /\ t.is_alive
    /\ t.current_state = "grabbing"
    /\ 100 * Dist2(p.position, titan_position(t))
         <= 144 * Twentieths(t.data.attack_range) * Twentieths(t.data.attack_range)

TitanAttacksAreGated(Dist2(_, _)) ==
    \A ts \in TitanLists : \A required_keys \in QteDraws(ts) :
      LET r == check_titan_attacks(pl, ts, required_keys)
          hitters == {i \in 1..Len(ts) : MayHit(pl, ts[i], Dist2)}
      IN /\ ~pl.is_alive \/ pl.current_state = "grabbed" =>
              r = [pl |-> pl, titans |-> ts, results |-> <<>>]
         /\ r.pl.health < pl.health =>
              /\ hitters # {}
              /\ \E hit \in SUBSET hitters :
                   LET RECURSIVE total(_)
                       total(S) == IF S = {} THEN 0
                                   ELSE LET i == CHOOSE i \in S : TRUE
                                        IN ts[i].data.attack_damage
                                             + total(S \ {i})
                   IN r.pl.health = Max(pl.health - total(hit), 0)
         /\ r.pl.current_state = "grabbed" /\ pl.current_state # "grabbed" =>
              \E i \in 1..Len(ts) : MayCapture(pl, ts[i], Dist2)
         /\ (\A i \in 1..Len(ts) :
                 ts[i].current_state \notin {"attacking", "grabbing"})
              => r = [pl |-> pl, titans |-> ts, results |-> <<>>]

\* C27: check_titan_attacks takes a titan's attack_damage from the player
\* only if that titan is alive, Attacking and within its attack range of the
\* player, and captures the player only if a titan is alive, Grabbing and
\* within 1.2 x its attack range; titans in other states do nothing, and
\* nothing happens to a player who is dead or already captured.
C27_TitanAttacksAreRangeGated == TitanAttacksAreGated(DistanceSq)


\* ------------------------------------------------------------------- C28
\* the fields of a TitanAI the interaction must leave to the titan itself
TitanCore(t) ==
    <<t.position, t.health, t.is_alive, t.current_state, t.previous_state,
      t.state_timer, t.attack_cooldown, t.response_timer,
      t.direction_change_timer, t.stun_timer>>

TitansUntouched ==
    \A ts \in TitanLists : \A required_keys \in QteDraws(ts) :
      /\ check_titan_attacks(pl, ts, required_keys).titans = ts
      /\ Interaction_update(pl, ts, required_keys).titans = ts

OnlyTakeDamage ==
    \A ts \in TitanLists :
      LET r == Interaction_perform_attack(pl, cs, ts, now)
          changed == {i \in 1..Len(ts) : TitanCore(r.titans[i]) # TitanCore(ts[i])}
      IN /\ Cardinality(changed) <= 1
         /\ \A i \in changed :
              /\ Len(r.results) = 1
              /\ r.titans[i] = TitanAI_take_damage(ts[i], r.results[1].damage_dealt,
                                                   r.results[1].hit_nape).titan

\* C28: update (which runs check_titan_attacks and check_collisions) and
\* check_titan_attacks leave every titan's position, health, is_alive, state
\* and timers as they were; perform_attack changes a titan only as
\* take_damage on the one struck titan does.
C28_InteractionLeavesTitansAlone == TitansUntouched /\ OnlyTakeDamage

\* the player has killed the first titan of the list with a nape strike and
\* the second, left as it was, has then hit the player
C28_Witness ==
    /\ ret.op = "check_titan_attacks"
    /\ ret.res # <<>>
    /\ pl.health < pl.max_health
    /\ Len(titans) = 2
    /\ ~titans[1].is_alive
    /\ titans[1] \notin InteractionTitans
    /\ titans[2] \in InteractionTitans
    /\ titans[2].current_state = "attacking"
    /\ titans[2].attack_cooldown > 0


\* ------------------------------------------------------------------- C29
\* the state update(dt) leaves a titan in when only the state timer drives
\* it: the next state once the time in the state exceeds the limit
TimedOut(t, dt, state, limit, next) ==
    t.current_state = state =>
      \A player_position \in PlayerPositions, turn \in WanderTurns,
         choose_grab \in BOOLEAN, chance_failed \in BOOLEAN :
        TitanAI_update(t, dt, player_position, turn, choose_grab,
                       chance_failed).current_state
          = IF t.state_timer + dt > limit THEN next ELSE state

\* update on a living titan that is not coming out of a stun
TimedTransitions ==
    (titan.is_alive /\ titan.stun_timer <= 0) =>
      \A dt \in FrameTimes :
        /\ TimedOut(titan, dt, "idle", IDLE_TIME, "wandering")
        /\ TimedOut(titan, dt, "attacking", ATTACK_ANIMATION_TIME, "pursuing")
        /\ TimedOut(titan, dt, "grabbing", GRAB_ANIMATION_TIME, "pursuing")

\* the state timer is the time spent in the current state: 0 when the state
\* has just changed
TimerRestartsWithState ==
    titan'.current_state # titan.current_state => titan'.state_timer = 0

\* C29: under update calls a titan leaves Idle for Wandering once its time in
\* Idle exceeds 3 s, Attacking for Pursuing after more than 1 s and Grabbing
\* for Pursuing after more than 2 s, never earlier, the state timer
\* restarting at 0 on every change of state.
C29_TimedTransitions ==
    /\ []TimedTransitions
    /\ [][TimerRestartsWithState]_vars

\* the same with the states set_state restores left aside
TimedTransitionsButForRestore ==
    /\ []TimedTransitions
    /\ [][TitanSetState \/ TimerRestartsWithState]_vars


\* ------------------------------------------------------------------- C30
\* player positions handed to update while pursuing: none, near, exactly
\* 1.5 x detection_range from the origin, just beyond, far beyond
PursuitPositions == PlayerPositions \cup {<<450>>, <<451>>}

SurvivesHit(t, damage) == t.is_alive /\ t.health - EffectiveDamage(t, damage) > 0

\* health after the hit is below the behaviour's retreat_threshold
LowAfterHit(t, damage) ==
    (t.health - EffectiveDamage(t, damage)) * 100
        < t.behavior.retreat_threshold * t.max_health

\* a hit off the nape that does not kill takes damage (1 - armor_reduction)
\* from health and returns false
SurvivedHitTakesReducedDamage ==
    \A damage \in TitanDamages :
      SurvivesHit(titan, damage) =>
        LET r == TitanAI_take_damage(titan, damage, FALSE)
        IN /\ ~r.killed
           /\ r.titan.is_alive
           /\ r.titan.health = titan.health - EffectiveDamage(titan, damage)

\* C31 (as stated): take_damage with hit_nape false that does not kill
\* reduces health by exactly damage (1 - armor_reduction) and returns false;
\* it changes current_state only to Stunned, when health / max_health is
\* below retreat_threshold, and otherwise leaves current_state unchanged.
C31_SurvivedHitOnlyStuns ==
    /\ SurvivedHitTakesReducedDamage
    /\ \A damage \in TitanDamages :
         SurvivesHit(titan, damage) =>
           TitanAI_take_damage(titan, damage, FALSE).titan.current_state
             = IF LowAfterHit(titan, damage) THEN "stunned" ELSE titan.current_state

\* C31 (amended): the same health and return value; current_state becomes
\* Stunned when health / max_health is below retreat_threshold after the hit
\* and Attacking otherwise, whatever the state was and whatever the attack
\* cooldown is; previous_state is the state left, when the state changed.
C31_SurvivedHitStunsOrProvokes ==
    /\ SurvivedHitTakesReducedDamage
    /\ \A damage \in TitanDamages :
         SurvivesHit(titan, damage) =>
           LET u == TitanAI_take_damage(titan, damage, FALSE).titan
               response == IF LowAfterHit(titan, damage) THEN "stunned"
                           ELSE "attacking"
           IN /\ u.current_state = response
              /\ titan.current_state # response =>
                   u.previous_state = titan.current_state
              /\ titan.current_state = response =>
                   u.previous_state = titan.previous_state
              /\ u.attack_cooldown = titan.attack_cooldown

\* a titan that never attacked was hit off the nape, survived with its
\* health above the threshold, and is Attacking
C31_Witness ==
    /\ ret.op = "take_damage" /\ ~ret.ok
    /\ frames = 0 /\ titan.attack_cooldown = 0
    /\ titan.is_alive /\ titan.health < titan.max_health
    /\ titan.current_state = "attacking"
    /\ titan.previous_state = "idle"

\* ================================================ GameManager on its own
MaxChapter == 3
MaxScore == 200

CharacterIds == {"", "eren", "mikasa"}
ScorePoints == {0 - 5, 0, 100}
SavedScores == {0, 100}

InitGame ==
    /\ now = ClockStart
    /\ cs = CombatSystem(BASE_ATTACK_DAMAGE)
    /\ hb = TitanHitbox(1, HitboxPosition, NapeCenter, NapeRadius, 1000)
    /\ ret = NoRet
    /\ titan = DefaultTitan
    /\ pl = Player
    /\ frames = 0
    /\ calls = 0
    /\ rs = ResourceSystem
    /\ odm = ODMSystem
    /\ titans = <<>>
    /\ gm = GameManager

GameChangeState ==
    /\ \E new_state \in GameStates :
         LET r == GameManager_change_state(gm, new_state)
         IN /\ gm' = r.gm
            /\ ret' = Returned("change_state", r.ok)
    /\ UNCHANGED <<now, cs, hb, titan, pl, frames, calls, rs, odm, titans>>

GameForceState ==
    /\ \E new_state \in GameStates : gm' = force_state(gm, new_state)
    /\ ret' = Returned("force_state", FALSE)
    /\ UNCHANGED <<now, cs, hb, titan, pl, frames, calls, rs, odm, titans>>

GameStartNewGame ==
    /\ \E character_id \in CharacterIds :
         LET r == start_new_game(gm, character_id)
         IN /\ gm' = r.gm
            /\ ret' = Returned("start_new_game", r.ok)
    /\ UNCHANGED <<now, cs, hb, titan, pl, frames, calls, rs, odm, titans>>

GameLoadGameState ==
    /\ \E character_id \in CharacterIds, chapter \in 1..MaxChapter,
          score \in SavedScores :
         gm' = load_game_state(gm, character_id, chapter, score)
    /\ ret' = Returned("load_game_state", FALSE)
    /\ UNCHANGED <<now, cs, hb, titan, pl, frames, calls, rs, odm, titans>>

GamePause ==
    /\ LET r == pause_game(gm)
       IN /\ gm' = r.gm
          /\ ret' = Returned("pause_game", r.ok)
    /\ UNCHANGED <<now, cs, hb, titan, pl, frames, calls, rs, odm, titans>>

GameResume ==
    /\ LET r == resume_game(gm)
       IN /\ gm' = r.gm
          /\ ret' = Returned("resume_game", r.ok)
    /\ UNCHANGED <<now, cs, hb, titan, pl, frames, calls, rs, odm, titans>>

GameAddScore ==
    /\ \E points \in ScorePoints :
         /\ gm.score + points <= MaxScore
         /\ gm' = add_score(gm, points)
    /\ ret' = Returned("add_score", FALSE)
    /\ UNCHANGED <<now, cs, hb, titan, pl, frames, calls, rs, odm, titans>>

GameAdvanceChapter ==
    /\ gm.current_chapter < MaxChapter
    /\ gm' = advance_chapter(gm)
    /\ ret' = Returned("advance_chapter", FALSE)
    /\ UNCHANGED <<now, cs, hb, titan, pl, frames, calls, rs, odm, titans>>

GameRun ==
    /\ gm' = GameManager_run(gm)
    /\ ret' = Returned("run", FALSE)
    /\ UNCHANGED <<now, cs, hb, titan, pl, frames, calls, rs, odm, titans>>

GameQuit ==
    /\ gm' = GameManager_quit(gm)
    /\ ret' = Returned("quit", FALSE)
    /\ UNCHANGED <<now, cs, hb, titan, pl, frames, calls, rs, odm, titans>>

NextGame ==
    \/ GameChangeState
    \/ GameForceState
    \/ GameStartNewGame
    \/ GameLoadGameState
    \/ GamePause
    \/ GameResume
    \/ GameAddScore
    \/ GameAdvanceChapter
    \/ GameRun
    \/ GameQuit

SpecGame == InitGame /\ [][NextGame]_vars

\* -------------------------------------------------------- GameManager claims
\* what a validated switch to target returns: true with the old state kept
\* as previous_state when allowed is true, false with nothing changed when not
ValidatedSwitch(r, target, allowed) ==
    /\ r.ok = allowed
    /\ allowed =>
         r.gm = [gm EXCEPT !.current_state = target,
                           !.previous_state = <<gm.current_state>>]
    /\ ~allowed => r.gm = gm

\* change_state follows the table; pause_game succeeds only from Gameplay and
\* resume_game only from Paused
ValidatedTransitions ==
    /\ \A target \in GameStates :
         ValidatedSwitch(GameManager_change_state(gm, target), target,
                         target \in VALID_TRANSITIONS[gm.current_state])
    /\ ValidatedSwitch(pause_game(gm), "paused", gm.current_state = "gameplay")
    /\ ValidatedSwitch(resume_game(gm), "gameplay", gm.current_state = "paused")

\* the step changes current_state along an edge of VALID_TRANSITIONS, or
\* leaves it as it is
AlongAnEdge ==
    gm'.current_state # gm.current_state =>
      gm'.current_state \in VALID_TRANSITIONS[gm.current_state]

\* start_new_game stays inside the table
StartNewGameInTable ==
    \A character_id \in CharacterIds :
      LET g == start_new_game(gm, character_id).gm
      IN g.current_state # gm.current_state =>
           g.current_state \in VALID_TRANSITIONS[gm.current_state]

\* C32 (as stated): current_state only ever changes along an edge of
\* VALID_TRANSITIONS; change_state(target) returns true and switches,
\* recording the old state as previous_state, exactly when target is in
\* VALID_TRANSITIONS[current_state], otherwise returns false and changes
\* neither state; pause_game succeeds only from Gameplay, resume_game only
\* from Paused; start_new_game never makes a transition outside the table.
C32_OnlyValidTransitions ==
    /\ [](ValidatedTransitions /\ StartNewGameInTable)
    /\ [][AlongAnEdge]_vars

\* start_new_game with a character id switches to Cutscene from every state,
\* recording the old state, and restarts chapter and score; without one it
\* returns false and changes nothing; force_state switches to any target
ForcedTransitions ==
    /\ \A character_id \in CharacterIds :
         LET r == start_new_game(gm, character_id)
         IN /\ r.ok = (character_id # "")
            /\ character_id = "" => r.gm = gm
            /\ character_id # "" =>
                 r.gm = [gm EXCEPT !.current_state = "cutscene",
                                   !.previous_state = <<gm.current_state>>,
                                   !.selected_character_id = <<character_id>>,
                                   !.current_chapter = 1,
                                   !.score = 0]
    /\ \A target \in GameStates :
         force_state(gm, target) = [gm EXCEPT !.current_state = target,
                                              !.previous_state = <<gm.current_state>>]

\* the step is a call of force_state or start_new_game
ForcedStep == ret'.op \in {"force_state", "start_new_game"}

\* C32 (amended): change_state, pause_game and resume_game are as stated, and
\* they are the only validated operations: force_state(target) and a
\* successful start_new_game (to Cutscene) switch from every state, in the
\* table or not, recording the old state as previous_state; every other
\* operation leaves current_state alone.
C32_ValidTransitionsUnlessForced ==
    /\ [](ValidatedTransitions /\ ForcedTransitions)
    /\ [][ForcedStep \/ AlongAnEdge]_vars

\* a new game was started from the main menu and the cutscene has given way
\* to gameplay through change_state
C32_Witness ==
    /\ ret.op = "change_state" /\ ret.ok
    /\ gm.current_state = "gameplay"
    /\ gm.previous_state = <<"cutscene">>
    /\ gm.selected_character_id = <<"eren">>
    /\ gm.current_chapter = 1 /\ gm.score = 0

\* ------------------------------------------------------- boost direction
\* the forces boost_power times the claimed direction can be, for hooks left
\* and right seen from position: toward an attached anchor that Preferred
\* puts first, else along the velocity, else forward.  An attached hook whose
\* anchor is the position itself has no direction, and nothing is claimed.
BoostForces(left, right, position, velocity, Preferred(_, _)) ==
    LET hook(side) == IF side = "left" THEN left ELSE right
        to(side) == VSub(hook(side).attach_point, position)
        attached == {side \in HookSides : hook(side).is_attached}
    IN IF \E side \in attached : MagSq(to(side)) = 0
       THEN {}
       ELSE IF attached # {}
            THEN {boost_along(to(side)) :
                    side \in {s \in attached :
                                \A g \in attached : Preferred(<<s, to(s)>>, <<g, to(g)>>)}}
       ELSE IF MagSq(velocity) > 0 THEN {boost_along(velocity)}
       ELSE {Vec3(0, 0, BOOST_POWER)}

\* a hook is put before another when its anchor is at most as far
Nearer(h, g) == MagSq(h[2]) <= MagSq(g[2])

\* the left hook is put before the right one
LeftFirst(h, g) == h[1] = "left" \/ g[1] # "left"

\* a successful activate_boost, of the ODMSystem and of the Player, adds one
\* of the forces allowed by Preferred to the velocity
BoostAdds(Preferred(_, _)) ==
    /\ LET r == ODM_activate_boost(odm)
           forces == BoostForces(odm.left_hook, odm.right_hook, odm.position,
                                 odm.velocity, Preferred)
       IN (r.ok /\ forces # {}) =>
            \E force \in forces : r.odm.velocity = VAdd(odm.velocity, force)
    /\ LET q == Player_activate_boost(pl)
           forces == BoostForces(pl.odm.left_hook, pl.odm.right_hook, pl.position,
                                 pl.velocity, Preferred)
       IN (q.ok /\ forces # {}) =>
            \E force \in forces : q.pl.velocity = VAdd(pl.velocity, force)

\* C33: a successful activate_boost adds boost direction times boost_power
\* to the velocity, the direction being the unit vector toward the nearer of
\* the attached hooks' anchors when a hook is attached, else the direction of
\* the velocity when the speed is not zero, else forward (0, 0, 1).
C33_BoostTowardNearerHook == BoostAdds(Nearer)

\* the same with the left hook's anchor whenever the left hook is attached
BoostTowardLeftHookFirst == BoostAdds(LeftFirst)

\* ------------------------------------------------------ releasing a hook
OtherSide(side) == IF side = "left" THEN "right" ELSE "left"

\* hook is detached with no rope and no tension
Detached(hook) == ~hook.is_attached /\ hook.rope_length = 0 /\ hook.tension = 0

\* between o and after nothing but the hook of the named side has changed
OnlyHookChanged(o, after, side) ==
    /\ after.velocity = o.velocity
    /\ after.position = o.position
    /\ after.gas_level = o.gas_level
    /\ after.surfaces = o.surfaces
    /\ get_hook(after, OtherSide(side)) = get_hook(o, OtherSide(side))

\* C34: release_hook(side), and the detach fire_hook performs on a side that
\* is already attached, reset that side's hook only (detached, rope length 0,
\* tension 0) and leave velocity, position, gas level and the other side's
\* hook as they were; fire_hook on an attached side that finds no surface
\* returns false and leaves that side detached.
C34_ReleaseResetsOneHook ==
    \A side \in HookSides :
      /\ LET after == ODM_release_hook(odm, side)
         IN /\ Detached(get_hook(after, side))
            /\ OnlyHookChanged(odm, after, side)
      /\ get_hook(odm, side).is_attached =>
           \A direction \in AimDirections :
             LET r == ODM_fire_hook(odm, direction, side)
             IN /\ OnlyHookChanged(odm, r.odm, side)
                /\ ~r.ok => Detached(get_hook(r.odm, side))
                /\ r.ok => /\ get_hook(r.odm, side).is_attached
                           /\ get_hook(r.odm, side).tension = 0
                /\ r.ok <=> find_attach_point(odm, odm.position, direction) # 0

\* the left hook has just been released beside an attached right hook
C34_Witness ==
    /\ ret.op = "release_hook"
    /\ calls = MaxCalls
    /\ Detached(odm.left_hook)
    /\ odm.right_hook.is_attached
    /\ odm.right_hook.rope_length > 0

\* ------------------------------------------------------ rope constraint
\* the velocity update_swing_physics hands to the first rope constraint
AfterGravity(o, dt) ==
    [o EXCEPT !.velocity = VAdd(o.velocity, Vec3(0, 0 - ODM_GRAVITY * dt, 0))]

\* the constraint of one side took o to after: nothing for a detached hook;
\* no change of velocity and tension 0 for a rope that is not stretched;
\* tension stretch * ROPE_STIFFNESS and, when Pulling, a change of velocity
\* that does not point away from the anchor, for one that is
Constrained(o, after, side, Pulling) ==
    LET hook == get_hook(o, side)
        to_attach == VSub(hook.attach_point, o.position)
        stretch == magnitude(to_attach) - hook.rope_length
    IN /\ after.position = o.position
       /\ get_hook(after, OtherSide(side)) = get_hook(o, OtherSide(side))
       /\ ~hook.is_attached => after = o
       /\ (hook.is_attached /\ stretch <= 0) =>
            /\ after.velocity = o.velocity
            /\ get_hook(after, side).tension = 0
       /\ (hook.is_attached /\ stretch > 0) =>
            /\ get_hook(after, side).tension = (stretch * ROPE_STIFFNESS) \div 2
            /\ get_hook(after, side).tension > 0
            /\ Pulling => Dot(VSub(after.velocity, o.velocity), to_attach) >= 0

\* tension and rope length are never negative, and a detached hook has none
HooksInRange(o) ==
    \A side \in HookSides :
      /\ get_hook(o, side).tension >= 0
      /\ get_hook(o, side).rope_length >= 0
      /\ ~get_hook(o, side).is_attached => get_hook(o, side).tension = 0

NoTime == {0, 0 - 1}

\* C35: the rope constraint of update_swing_physics only pulls: for an
\* attached hook no farther from its anchor than rope_length it changes the
\* velocity by nothing and the tension is 0 after the step; only beyond
\* rope_length is a force applied, toward the anchor, with tension
\* stretch * ROPE_STIFFNESS > 0; tension and rope_length are never negative,
\* a detached hook has tension 0, and update_swing_physics with dt <= 0
\* changes nothing.
C35_RopeOnlyPulls ==
    /\ HooksInRange(odm)
    /\ \A dt \in NoTime : update_swing_physics(odm, dt) = odm
    /\ InArena(odm) => \A dt \in FrameTimes :
         LET o1 == AfterGravity(odm, dt)
             o2 == apply_hook_constraint(o1, "left", dt)
             o3 == apply_hook_constraint(o2, "right", dt)
             after == update_swing_physics(odm, dt)
         IN /\ Constrained(o1, o2, "left", TRUE)
            /\ Constrained(o2, o3, "right", TRUE)
            /\ after.left_hook = o3.left_hook
            /\ after.right_hook = o3.right_hook

\* the stretched rope may push; a hook whose anchor is the position itself
\* is passed over with the tension it had
RopeSpringAndDamper ==
    /\ HooksInRange(odm)
    /\ \A dt \in NoTime : update_swing_physics(odm, dt) = odm
    /\ InArena(odm) => \A dt \in FrameTimes :
         LET o1 == AfterGravity(odm, dt)
             o2 == apply_hook_constraint(o1, "left", dt)
             o3 == apply_hook_constraint(o2, "right", dt)
             after == update_swing_physics(odm, dt)
             AtAnchor(side) == /\ get_hook(odm, side).is_attached
                               /\ get_hook(odm, side).attach_point = odm.position
         IN /\ AtAnchor("left") => o2 = o1
            /\ ~AtAnchor("left") => Constrained(o1, o2, "left", FALSE)
            /\ AtAnchor("right") => o3 = o2
            /\ ~AtAnchor("right") => Constrained(o2, o3, "right", FALSE)
            /\ after.left_hook = o3.left_hook
            /\ after.right_hook = o3.right_hook

\* ===================================================== constructing titans
\* type identifiers handed to the constructor: the three of the table, one
\* that is not in it, and the empty string
TypeIds == {"normal_3m", "armored_15m", "abnormal_7m", "colossal_60m", ""}

SpawnPositions == {0, 100}

InitSpawn ==
    /\ now = ClockStart
    /\ cs = CombatSystem(BASE_ATTACK_DAMAGE)
    /\ hb = TitanHitbox(1, HitboxPosition, NapeCenter, NapeRadius, 1000)
    /\ ret = NoRet
    /\ titan = DefaultTitan
    /\ pl = Player
    /\ frames = 0
    /\ calls = 0
    /\ rs = ResourceSystem
    /\ odm = ODMSystem
    /\ titans = <<>>
    /\ gm = GameManager

\* titan = TitanAI(titan_type_id, position); when the constructor raises,
\* the assignment does not happen
TitanConstruct ==
    /\ \E titan_type_id \in TypeIds, position \in SpawnPositions :
         LET r == TitanAI_init(titan_type_id, position)
         IN /\ titan' = IF r.raised THEN titan ELSE r.titan[1]
            /\ ret' = Returned("TitanAI", ~r.raised)
    /\ UNCHANGED <<now, cs, hb, pl, frames, calls, rs, odm, titans, gm>>

NextSpawn ==
    \/ TitanConstruct
    \/ TitanUpdate
    \/ TitanTakeDamage

SpecSpawn == InitSpawn /\ [][NextSpawn]_vars

\* ------------------------------------------------------ constructor claims
KnownType(titan_type_id) == \E d \in titan_data_cache : d.id = titan_type_id

KnownBehavior(name) == \E b \in behavior_patterns_cache : b.name = name

\* a titan as the constructor leaves it, for a type profile and a behaviour
FreshTitan(t, data, behavior) ==
    /\ t.data = data /\ t.behavior = behavior
    /\ t.is_alive /\ t.health = data.health /\ t.max_health = data.health
    /\ t.current_state = "idle" /\ t.target = <<>>

\* a type of the table whose behaviour is not in the behaviour table gets
\* the default behaviour, and no error is raised
UnknownBehaviorIsDefaulted ==
    \A titan_type_id \in TypeIds, position \in SpawnPositions :
      KnownType(titan_type_id) =>
        LET r == TitanAI_init(titan_type_id, position)
            data == CHOOSE d \in titan_data_cache : d.id = titan_type_id
        IN /\ ~r.raised
           /\ KnownBehavior(data.behavior) =>
                \E b \in behavior_patterns_cache :
                  b.name = data.behavior /\ FreshTitan(r.titan[1], data, b)
           /\ ~KnownBehavior(data.behavior) =>
                FreshTitan(r.titan[1], data, default_behavior)

\* C36 (as stated): constructing a TitanAI never raises: with a type
\* identifier that is not in the type table, or with a profile naming a
\* behaviour that is not in the behaviour table, the constructor yields a
\* titan with the default profile substituted.
C36_UnknownIdentifiersAreDefaulted ==
    /\ UnknownBehaviorIsDefaulted
    /\ \A titan_type_id \in TypeIds, position \in SpawnPositions :
         ~KnownType(titan_type_id) =>
           LET r == TitanAI_init(titan_type_id, position)
           IN /\ ~r.raised
              /\ FreshTitan(r.titan[1], normal_3m, default_behavior)
    /\ ret.op = "TitanAI" => ret.ok

\* C36 (amended): a type identifier that is not in the type table makes the
\* constructor raise ValueError, and no titan is made; a profile naming a
\* behaviour that is not in the behaviour table yields a titan of that type
\* with the default behaviour (standard, direct pursuit, attack frequency
\* 1.0, retreat threshold 0.0) and no error.
C36_UnknownTypeRaises ==
    /\ UnknownBehaviorIsDefaulted
    /\ \A titan_type_id \in TypeIds, position \in SpawnPositions :
         ~KnownType(titan_type_id) =>
           TitanAI_init(titan_type_id, position) = [raised |-> TRUE, titan |-> <<>>]
    /\ (ret.op = "TitanAI" /\ ret.ok) =>
         /\ KnownType(titan.data.id)
         /\ FreshTitan(titan, titan.data, titan.behavior)

\* after some play a titan of the type with the unknown behaviour was
\* constructed, with the default behaviour
C36_Witness ==
    /\ ret.op = "TitanAI" /\ ret.ok
    /\ frames > 0
    /\ titan.data.id = "abnormal_7m"
    /\ ~KnownBehavior(titan.data.behavior)
    /\ titan.behavior = default_behavior

\* ====================================================== the simulation tick
\* One player and one titan 2 m ahead, stepped by the three per-frame
\* updates in any order, with the QTE key typed in between.
TickTimes == {1, 2}

\* a titan that has seen the player, one of each type, and titans that have
\* begun an attack and a grab
TickTitans ==
    {detect_player(TitanAI(normal_3m, standard, 20), <<0>>).titan,
     detect_player(TitanAI(armored_15m, cautious, 20), <<0>>).titan,
     perform_attack(TitanAI(normal_3m, standard, 20)).titan,
     perform_grab(TitanAI(normal_3m, standard, 20), FALSE).titan}

\* the player position as the frame loop hands it to TitanAI.update
SeenPosition(p) == <<p.position[1] \div 2>>

\* TitanAI.update(dt, player_position) on every active titan
TitanFrame(ts, p, dt, choose_grab, chance_failed) ==
    [i \in 1..Len(ts) |->
       TitanAI_update(ts[i], dt, SeenPosition(p), 1, choose_grab, chance_failed)]

InitTick ==
    /\ now = ClockStart
    /\ cs = CombatSystem(BASE_ATTACK_DAMAGE)
    /\ hb = TitanHitbox(1, HitboxPosition, NapeCenter, NapeRadius, 1000)
    /\ ret = NoRet
    /\ titan = DefaultTitan
    /\ pl = Player
    /\ frames = 0
    /\ calls = 0
    /\ rs = ResourceSystem
    /\ odm = ODMSystem
    /\ \E t \in TickTitans : titans = <<t>>
    /\ gm = GameManager

TickTitanUpdate ==
    /\ frames < MaxFrames
    /\ frames' = frames + 1
    /\ \E dt \in TickTimes, choose_grab \in BOOLEAN, chance_failed \in BOOLEAN :
         titans' = TitanFrame(titans, pl, dt, choose_grab, chance_failed)
    /\ ret' = NoRet
    /\ UNCHANGED <<now, cs, hb, titan, pl, calls, rs, odm, gm>>

TickPlayerUpdate ==
    /\ calls < MaxCalls
    /\ calls' = calls + 1
    /\ \E dt \in TickTimes :
         LET r == Player_update(pl, cs, dt, now)
         IN pl' = r.pl /\ cs' = r.cs
    /\ ret' = NoRet
    /\ UNCHANGED <<now, hb, titan, frames, rs, odm, titans, gm>>

NextTick ==
    \/ TickTitanUpdate
    \/ TickPlayerUpdate
    \/ InteractionUpdate
    \/ PlayerProcessQteInput

SpecTick == InitTick /\ [][NextTick]_vars

\* ------------------------------------------------------------- tick claims
\* results holds a result of the given type
Reports(results, interaction_type) ==
    \E k \in 1..Len(results) : results[k].interaction_type = interaction_type

\* the titan was in state before the update and has stayed in it
SameEpisode(before, after, state, dt) ==
    /\ before.current_state = state
    /\ after.current_state = state
    /\ after.state_timer = before.state_timer + dt

\* a titan whose attack has damaged the player in one tick does not damage
\* the player again in the next tick of the same Attacking episode
OneStrikePerAttack ==
    \A required_keys \in QteDraws(titans), dt \in TickTimes,
       choose_grab \in BOOLEAN, chance_failed \in BOOLEAN :
      LET r1 == Interaction_update(pl, titans, required_keys)
          p2 == Player_update(r1.pl, cs, dt, now).pl
          ts2 == TitanFrame(r1.titans, p2, dt, choose_grab, chance_failed)
          r2 == Interaction_update(p2, ts2, required_keys)
      IN (/\ Reports(r1.titan_attacks, "titan_attack")
          /\ SameEpisode(titans[1], ts2[1], "attacking", dt)) =>
           /\ ~Reports(r2.titan_attacks, "titan_attack")
           /\ r2.pl.health = r1.pl.health

\* a player captured by a grab who escapes by typing the QTE key is not
\* captured again in the next tick of the same Grabbing episode
OneCapturePerGrab ==
    \A required_keys \in QteDraws(titans), dt \in TickTimes,
       choose_grab \in BOOLEAN, chance_failed \in BOOLEAN :
      LET r1 == Interaction_update(pl, titans, required_keys)
          key == IF r1.pl.current_qte = <<>> THEN ""
                 ELSE r1.pl.current_qte[1].required_key
          q == Player_process_qte_input(r1.pl, key)
          p3 == Player_update(q.pl, cs, dt, now).pl
          ts3 == TitanFrame(r1.titans, p3, dt, choose_grab, chance_failed)
          r3 == Interaction_update(p3, ts3, required_keys)
      IN (/\ Reports(r1.titan_attacks, "grab")
          /\ q.ok
          /\ SameEpisode(titans[1], ts3[1], "grabbing", dt)) =>
           /\ ~Reports(r3.titan_attacks, "grab")
           /\ r3.pl.current_state # "grabbed"

\* C37: each Attacking episode of a titan applies its attack damage to the
\* player at most once and each Grabbing episode captures the player at most
\* once, over any sequence of Player.update, TitanAI.update and
\* PlayerTitanInteraction.update; a player who escapes by QTE is not captured
\* again by the same grab.  Stated for the tick that follows a strike or an
\* escape.
C37_OneStrikePerEpisode == OneStrikePerAttack /\ OneCapturePerGrab


\* ------------------------------------------------------------------- C38
\* a titan of every type of the data file, 2 m or 4.4 m from the origin,
\* unharmed or worn down to 10.0 health by an earlier body hit
WornDown(t) ==
    TitanAI_take_damage(t, ((t.data.health - 100) * 100)
                               \div (100 - t.data.armor_reduction), FALSE).titan

StruckTitans ==
    UNION {{TitanAI(data, behavior_of(data), x),
            WornDown(TitanAI(data, behavior_of(data), x))} :
           data \in titan_data_cache, x \in {20, 44}}

\* perform_attack on the list ts counts a kill in the combat system exactly
\* when it reports titan_killed, and reports it exactly when a titan of the
\* list died in the call
KillIsCounted(ts) ==
    LET r == Interaction_perform_attack(pl, cs, ts, now)
        died == {i \in 1..Len(ts) : ts[i].is_alive /\ ~r.titans[i].is_alive}
        reported == r.results # <<>> /\ r.results[1].titan_killed
    IN /\ reported <=> died # {}
       /\ reported =>
            /\ r.cs.total_score > cs.total_score
            /\ r.cs.combo_count = update_combo_on_kill(cs, now).combo_count
            /\ r.cs.combo_count >= 1
       /\ ~reported =>
            /\ r.cs.total_score = cs.total_score
            /\ r.cs.combo_count = cs.combo_count

EndedByFirst(first) ==
    /\ first.results # <<>>
    /\ ~first.pl.is_alive \/ first.pl.current_state = "grabbed"

\* C39: within one check_titan_attacks call, once a titan has killed or
\* captured the player no later titan of the list affects the player: the
\* health is what the first left, the QTE and the grabbing titan are not
\* replaced, and no further result is reported (the death callback fires
\* only together with a reported titan_attack).
C39_FirstKillOrCaptureEndsTheCall ==
    \A ts \in TitanLists : \A required_keys \in QteDraws(ts) :
      Len(ts) = 2 =>
        LET first == check_titan_attacks(pl, <<ts[1]>>, <<required_keys[1]>>)
            both == check_titan_attacks(pl, ts, required_keys)
        IN EndedByFirst(first) =>
             /\ both.pl.health = first.pl.health
             /\ both.pl.current_qte = first.pl.current_qte
             /\ both.pl.grabbing_titan = first.pl.grabbing_titan
             /\ both.results = first.results


\* ------------------------------------------------------------------- C40
\* the titan after update(dt) calls adding up to the whole stun time
AfterStunTime ==
    {TitanAI_update(titan, STUN_TIME, player_position, turn, choose_grab,
                    chance_failed) :
        player_position \in PlayerPositions, turn \in WanderTurns,
        choose_grab \in BOOLEAN, chance_failed \in BOOLEAN}

\* C40: a living Stunned titan always has a positive stun timer, so update
\* calls with dt > 0 return it to another state once the stun time has
\* passed; this includes a titan restored by set_state from a snapshot
\* taken while Stunned.
C40_StunAlwaysEnds ==
    titan.is_alive /\ titan.current_state = "stunned"
        => /\ titan.stun_timer > 0
           /\ \A after \in AfterStunTime : after.current_state # "stunned"

====
